---- MODULE Spec2Model ----
(***************************************************************************)
(* State-machine model of gemini-cli-proxy: the OAuth account rotator      *)
(* (utils/oauth-rotator.ts), the token manager (auth/token-manager.ts),    *)
(* the Gemini API client (gemini/client.ts) and its SSE frame parser.      *)
(*                                                                         *)
(* Date.now() is counted in whole minutes since the epoch.                 *)
(***************************************************************************)
EXTENDS Integers, Sequences, FiniteSets, TLC

\* ------------------------------------------------------------------------
\* Bounds of the model
\* ------------------------------------------------------------------------
MaxAccounts == 3        \* largest credential pool explored
MaxRotateCalls == 3     \* rotateCredentials() calls issued in one run of SpecRot
MaxTicks == 1           \* hours the clock may advance in one run of SpecRot
MaxTokTicks == 2        \* minutes the clock may advance in one run of SpecTok
MaxHandleCalls == 2     \* calls to the credential handle in one run of SpecTok
MaxLines == 3           \* lines of the upstream text fed to parseSSEStream
MaxFrames == 2          \* frames of a 200 response to a stream request
MaxFallbacks == 1       \* substitute models the fallback policy has to offer
MaxStreams == 2         \* streams one client serves in one run of SpecServe
MaxReads == 1           \* readdir() calls of the folder watch pending at once
MaxChats == 2           \* chat completion requests in one run of SpecConv

Files == 1..MaxAccounts         \* credential files; file f holds account f
RotCallers == {1, 2}            \* concurrent callers of rotateCredentials()
TokCallers == {1, 2, 3}         \* concurrent callers of getAccessToken()
Procs == {0} \cup RotCallers \cup TokCallers
                                \* 0 is the project-discovery task of the client

NoFile == 0                     \* "no credential" / nothing written yet

VARIABLES
    \* ---- OAuthRotator fields (src/unnamed/part_006:12-24)
    credentialFilePaths,   \* sequence of files
    currentIndex,          \* 0-based
    isEnabled,
    allAccountsExhausted,
    rotationInProgress,
    rotationPromise,       \* <<"null">> | <<"pending">> | <<"fulfilled", path>> | <<"rejected">>
    lastResetTime,
    resetTimezoneOffset,
    resetHour,
    \* ---- performRotation() activation (its locals and position)
    perf,                  \* [pc, path, content]
    rotWaiters,            \* callers suspended on rotationPromise
    refreshDebounceTimer,  \* 0 is null or a timer that has fired, otherwise
                           \* the half seconds left until it fires
    folderReads,           \* readdir() calls of fired timers not answered yet
    folderWatcher,         \* FALSE is null, TRUE a watch on the folder
    folderInit,            \* position of initializeWithFolder(): <<"none">> |
                           \* <<"readdir">> | <<"copy", first path>>
    \* ---- environment
    now,                   \* Date.now(), in minutes
    localTimezone,         \* offset of the process' own timezone from GMT, hours
    fileContent,           \* file -> [readable, fields, acct]
    cacheFile,             \* content of ~/.gemini/oauth_creds.json
    folderFiles,           \* the .json files in the watched folder
    \* ---- TokenManager fields (src/src/auth/token-manager.ts:10-14)
    cachedToken,           \* 0 is null, otherwise a token
    tokenExpiration,       \* 0 is null, otherwise an instant
    refreshPromise,        \* "null" | "pending"
    refreshNow,            \* `now` as captured by the call that started the refresh
    tokWaiters,            \* callers suspended on refreshPromise
    \* ---- the credential handle (OAuth2Client), as far as the manager sees it
    handleCalls,           \* authClient.getAccessToken() calls made so far
    handlePending,         \* ... of which not yet answered
    \* ---- parseSSEStream() activation (src/src/gemini/client.ts:1011-1070)
    sseText,               \* the whole upstream body, a sequence of characters
    sseInput,              \* the part of it the reader has not delivered yet
    buffer,
    objectBuffer,
    sseOut,                \* the objects yielded so far
    ssePc,                 \* "reading" | "done"
    sseCut,                \* where chunk boundaries have fallen so far
    \* ---- GeminiApiClient fields (src/src/gemini/client.ts:50-63)
    googleCloudProject,    \* 0 is undefined, otherwise the static project
    projectId,             \* 0 is null, otherwise a project identity
    projectIdPromise,      \* "null" | "pending"
    authAcct,              \* account whose credentials authClient holds
    accessToken,           \* authClient.credentials.access_token: 0 is
                           \* undefined, otherwise the account it was issued to
    firstChunk,
    lastThoughtSignature,  \* 0 is undefined
    \* ---- activations of the client's methods
    stack,                 \* task -> frames of streamContentInternal/callEndpoint
    result,                \* caller -> how its streamContent call ended
    projWaiters,           \* tasks suspended on projectIdPromise
    projRes,               \* what discoverProjectId() gave each task
    disc,                  \* the discovery block: [stage, polls, acct]
    reload,                \* task -> locals of its reloadCredentials()
    reqProject,            \* geminiCompletionRequest.project
    blacklisted,           \* the files blacklistAccount() was given, in call order
    obs,                   \* history of the callers' upstream responses
    stream,                \* caller -> the response body being streamed and
                           \* the locals of the loop over its frames
    completion,            \* caller -> what getCompletion() returned
    reqModel,              \* geminiCompletionRequest.model: 0 the model asked
                           \* for, k the k-th substitute of the fallback
    self,                  \* the fields of the clients whose streamContent()
                           \* waits for a fallback client, outermost first
    reqThoughtSignature,   \* thoughtSignature of the tool parts of
                           \* geminiCompletionRequest; 0 is none
    \* ---- callers
    pc,                    \* position of each caller
    rotRes,                \* what rotateCredentials() gave each caller
    tokRes,                \* what getAccessToken() gave each caller
    \* ---- history (observation only: never read by the program)
    hist

rotVars == <<credentialFilePaths, currentIndex, isEnabled, allAccountsExhausted,
             rotationInProgress, rotationPromise, lastResetTime,
             resetTimezoneOffset, resetHour, perf, rotWaiters,
             refreshDebounceTimer, folderReads, folderWatcher, folderInit>>
envVars == <<now, localTimezone, fileContent, cacheFile, folderFiles>>
tokVars == <<cachedToken, tokenExpiration, refreshPromise, refreshNow,
             tokWaiters, handleCalls, handlePending, tokRes>>
sseVars == <<sseText, sseInput, buffer, objectBuffer, sseOut, ssePc, sseCut>>
outVars == <<firstChunk, lastThoughtSignature, stream, completion, reqModel,
            self, reqThoughtSignature>>
engVars == <<googleCloudProject, accessToken, projectId, projectIdPromise, authAcct, stack,
             result, projWaiters, projRes, disc, reload, reqProject,
             blacklisted, obs>>
vars == <<rotVars, envVars, tokVars, sseVars, outVars, engVars, pc, rotRes,
          hist>>

\* What the rotator's own steps leave alone.
nonRot == <<tokVars, sseVars, outVars>>

\* ------------------------------------------------------------------------
\* Credential files
\* ------------------------------------------------------------------------
CredFields == {"access_token", "refresh_token", "client_id", "client_secret"}

\* The contents a credential file is given in the runs explored.
FileKinds ==
    { [readable |-> TRUE,  fields |-> {"access_token"}],
      [readable |-> TRUE,  fields |-> {}],
      [readable |-> FALSE, fields |-> {}] }

ValidKind == [readable |-> TRUE, fields |-> {"access_token"}]

\* File f holding the credentials of account f, with content of kind k.
FileOf(f, k) == [readable |-> k.readable, fields |-> k.fields, acct |-> f]

NoContent == [readable |-> FALSE, fields |-> {}, acct |-> NoFile]

\* validateCredentialFile(filePath): readFile + JSON.parse, then
\* access_token || refresh_token || client_id || client_secret
validateUnlessExhausted(f) ==
    /\ ~allAccountsExhausted
    /\ fileContent[f].readable
    /\ fileContent[f].fields \cap CredFields # {}
validateCredentialFile(f) ==
    /\ fileContent[f].readable
    /\ fileContent[f].fields \cap CredFields # {}

\* ------------------------------------------------------------------------
\* OAuthRotator
\* ------------------------------------------------------------------------
getAccountCount == Len(credentialFilePaths)

isRotationEnabledAnyPool == isEnabled
isRotationEnabled == isEnabled /\ Len(credentialFilePaths) > 1

getCurrentAccountPath ==
    IF ~isEnabled \/ Len(credentialFilePaths) = 0
    THEN NoFile
    ELSE credentialFilePaths[currentIndex + 1]

\* Date.getHours() and the calendar day (getDate/getMonth/getFullYear taken
\* together) of an instant t given in minutes.
HourOf(t) == (t \div 60) % 24
DayOf(t) == t \div 1440

\* shouldResetIndex(): "localNow" is now shifted into the configured timezone,
\* its hour and calendar day are compared with the reset hour and with the
\* calendar day of lastResetTime, which new Date(lastResetTime) reads in the
\* process' own timezone.
shouldResetIndex ==
    /\ HourOf(now + resetTimezoneOffset * 60) = resetHour
    /\ DayOf(now + resetTimezoneOffset * 60)
           # DayOf(lastResetTime + localTimezone * 60)

\* The index and exhaustion flag performRotation() computes synchronously,
\* from the index idx and flag ex it finds.
NextIndexStuck(idx) == idx % Len(credentialFilePaths)
NextIndex(idx) == (idx + 1) % Len(credentialFilePaths)

\* rotateCredentials(): "if a rotation is in progress, wait for it"
RotationNeverInFlight == FALSE
RotationInFlight == rotationInProgress /\ rotationPromise # <<"null">>

IdlePerf == [pc |-> "none", path |-> NoFile, content |-> NoContent]

\* No folder is watched: initialize(paths) stops the watcher and its timer.
WatchIdle ==
    /\ folderFiles = {}
    /\ refreshDebounceTimer = 0
    /\ folderReads = 0
    /\ folderWatcher = FALSE
    /\ folderInit = <<"none">>

\* History only: the rotator's history is kept in the runs that observe the
\* rotator by itself (hist.on), and left as it is in the others.
Record(h) == IF hist.on THEN h ELSE hist

\* History only: 1 when c calls while another caller's rotateCredentials()
\* has not resolved yet.
Overlap(c) ==
    IF \E d \in Procs \ {c} : pc[d] \in {"rotstart", "rotwait", "rotfinally"}
    THEN 1 ELSE 0

\* rotateCredentials() called by c, up to its first suspension point.
\* It returns at once (pc "rotret") or suspends on rotationPromise ("rotwait").
RotateCredentials(c) ==
    IF ~isRotationEnabled
    THEN /\ rotRes' = [rotRes EXCEPT ![c] = <<"null">>]
         /\ pc' = [pc EXCEPT ![c] = "rotret"]
         /\ hist' = Record([hist EXCEPT !.calls = @ + 1, !.seq[c] = 0])
         /\ UNCHANGED <<rotVars, envVars, nonRot>>
    ELSE LET reset == shouldResetIndex
             idx0 == IF reset THEN 0 ELSE currentIndex
             lrt  == IF reset THEN now ELSE lastResetTime
             ex0  == IF reset THEN FALSE ELSE allAccountsExhausted
         IN /\ lastResetTime' = lrt
            /\ IF RotationInFlight
               THEN \* join the rotation in flight
                    /\ currentIndex' = idx0
                    /\ allAccountsExhausted' = ex0
                    /\ IF rotationPromise = <<"pending">>
                       THEN /\ rotWaiters' = rotWaiters \cup {c}
                            /\ pc' = [pc EXCEPT ![c] = "rotwait"]
                            /\ rotRes' = [rotRes EXCEPT ![c] = <<"none">>]
                       ELSE /\ rotRes' = [rotRes EXCEPT ![c] = rotationPromise]
                            /\ pc' = [pc EXCEPT ![c] = "rotret"]
                            /\ UNCHANGED rotWaiters
                    /\ hist' = Record([hist EXCEPT !.calls = @ + 1,
                                            !.overlaps = @ + Overlap(c),
                                            !.seq[c] = hist.advances,
                                            !.resets = @ + (IF reset THEN 1 ELSE 0)])
                    /\ UNCHANGED <<rotationInProgress, rotationPromise, perf>>
               ELSE \* start performRotation(), which runs to its first await
                    LET idx1 == NextIndex(idx0)
                    IN /\ rotationInProgress' = TRUE
                       /\ rotationPromise' = <<"pending">>
                       /\ currentIndex' = idx1
                       /\ allAccountsExhausted' = (idx1 = 0)
                       /\ perf' = [pc |-> "validate",
                                   path |-> credentialFilePaths[idx1 + 1],
                                   content |-> NoContent]
                       /\ rotWaiters' = {c}
                       /\ pc' = [pc EXCEPT ![c] = "rotstart"]
                       /\ hist' = Record([hist EXCEPT !.calls = @ + 1,
                                               !.overlaps = @ + Overlap(c),
                                               !.advances = @ + 1,
                                               !.seq[c] = hist.advances + 1,
                                               !.from = currentIndex,
                                               !.resets = @ + (IF reset THEN 1 ELSE 0)])
                       /\ rotRes' = [rotRes EXCEPT ![c] = <<"none">>]
            /\ UNCHANGED <<credentialFilePaths, isEnabled, resetTimezoneOffset,
                           resetHour, refreshDebounceTimer, folderReads,
                   folderWatcher, folderInit, envVars, nonRot>>

\* The promise of performRotation() settles with result r: every caller
\* suspended on it is handed r; the caller that started the rotation still
\* has the finally block of rotateCredentials() to run.
Settle(r) ==
    /\ rotationPromise' = r
    /\ perf' = IdlePerf
    /\ rotRes' = [c \in Procs |-> IF c \in rotWaiters THEN r ELSE rotRes[c]]
    /\ pc' = [c \in Procs |->
                IF c \in rotWaiters
                THEN (IF pc[c] = "rotstart" THEN "rotfinally" ELSE "rotret")
                ELSE pc[c]]
    /\ rotWaiters' = {}

\* performRotation(): await validateCredentialFile(newCredentialPath)
PerformValidate ==
    /\ perf.pc = "validate"
    /\ IF validateCredentialFile(perf.path)
       THEN /\ perf' = [perf EXCEPT !.pc = "read"]
            /\ UNCHANGED <<rotationPromise, rotRes, pc, rotWaiters>>
       ELSE Settle(<<"rejected">>)
    /\ UNCHANGED <<credentialFilePaths, currentIndex, isEnabled,
                   allAccountsExhausted, rotationInProgress, lastResetTime,
                   resetTimezoneOffset, resetHour, refreshDebounceTimer, folderReads,
                   folderWatcher, folderInit, envVars, hist, nonRot>>

\* performRotation(): await fs.readFile(newCredentialPath)
PerformRead ==
    /\ perf.pc = "read"
    /\ IF fileContent[perf.path].readable
       THEN /\ perf' = [perf EXCEPT !.pc = "write",
                                    !.content = fileContent[perf.path]]
            /\ UNCHANGED <<rotationPromise, rotRes, pc, rotWaiters>>
       ELSE Settle(<<"rejected">>)
    /\ UNCHANGED <<credentialFilePaths, currentIndex, isEnabled,
                   allAccountsExhausted, rotationInProgress, lastResetTime,
                   resetTimezoneOffset, resetHour, refreshDebounceTimer, folderReads,
                   folderWatcher, folderInit, envVars, hist, nonRot>>

\* performRotation(): await fs.mkdir, await fs.writeFile(defaultCredentialPath),
\* return newCredentialPath.  The write may fail (ok = FALSE).
PerformWrite ==
    /\ perf.pc = "write"
    /\ \E ok \in BOOLEAN :
         IF ok
         THEN /\ cacheFile' = perf.content
              /\ hist' = Record([hist EXCEPT !.writes = @ + 1])
              /\ Settle(<<"fulfilled", perf.path>>)
         ELSE /\ UNCHANGED <<cacheFile, hist>>
              /\ Settle(<<"rejected">>)
    /\ UNCHANGED <<credentialFilePaths, currentIndex, isEnabled,
                   allAccountsExhausted, rotationInProgress, lastResetTime,
                   resetTimezoneOffset, resetHour, refreshDebounceTimer, folderReads,
                   folderWatcher, folderInit, now, localTimezone,
                   fileContent, folderFiles, nonRot>>

\* rotateCredentials(): the finally block of the caller that started the
\* rotation, after `await this.rotationPromise`.
RotateFinally(c) ==
    /\ pc[c] = "rotfinally"
    /\ rotationInProgress' = FALSE
    /\ rotationPromise' = <<"null">>
    /\ pc' = [pc EXCEPT ![c] = "rotret"]
    /\ UNCHANGED <<credentialFilePaths, currentIndex, isEnabled,
                   allAccountsExhausted, lastResetTime, resetTimezoneOffset,
                   resetHour, refreshDebounceTimer, folderReads,
                   folderWatcher, folderInit, perf, rotWaiters, envVars, rotRes, hist, nonRot>>

\* ---- initialize, initializeWithFolder and the folder watch
DEBOUNCE_MS == 2        \* 1000 ms, in half seconds

\* What the folder-watch steps leave alone.
nonWatch == <<rotationInProgress, rotationPromise, lastResetTime,
              resetTimezoneOffset, resetHour, perf, rotWaiters, now,
              localTimezone, fileContent, nonRot, engVars, pc, rotRes>>

\* readdir(folderPath) filtered to *.json and joined with the folder path.
Listing(S) ==
    CHOOSE q \in [1..Cardinality(S) -> S] :
        \A i, j \in 1..Cardinality(S) : i < j => q[i] < q[j]
Range(q) == {q[i] : i \in 1..Len(q)}

\* stopFolderWatcher(): the assignments it makes.
stopFolderWatcher ==
    /\ folderWatcher' = FALSE
    /\ refreshDebounceTimer' = 0

\* History only: hist.owed is the number of bursts of watch events that have
\* not ended in a reload yet; a burst whose timer a stopFolderWatcher() call
\* clears is not owed one.
Cancels(stops) == IF stops /\ refreshDebounceTimer > 0 THEN 1 ELSE 0

\* initialize(paths)
Initialize(paths) ==
    /\ IF Len(paths) = 0
       THEN /\ isEnabled' = FALSE
            /\ UNCHANGED <<credentialFilePaths, currentIndex, folderWatcher,
                           refreshDebounceTimer>>
       ELSE /\ stopFolderWatcher
            /\ credentialFilePaths' = paths
            /\ currentIndex' = 0
            /\ isEnabled' = TRUE
    /\ hist' = [hist EXCEPT !.owed = @ - Cancels(Len(paths) # 0)]
    /\ UNCHANGED <<allAccountsExhausted, folderReads, folderInit, folderFiles,
                   cacheFile, nonWatch>>

\* initializeWithFolder(folderPath) with a folder path given, up to
\* `await fs.readdir(folderPath)`.  It is called while no folder is watched
\* (src/src/index.ts:82-94).
InitializeWithFolder ==
    /\ folderInit = <<"none">>
    /\ ~folderWatcher
    /\ folderInit' = <<"readdir">>
    /\ UNCHANGED <<hist, credentialFilePaths, currentIndex, isEnabled,
                   allAccountsExhausted, refreshDebounceTimer, folderReads,
                   folderWatcher, folderFiles, cacheFile, nonWatch>>

\* initializeWithFolder(): readdir answers (or throws); with .json files found
\* the pool is set and copyFirstCredentialToCache() runs to its readFile.
FolderListed ==
    /\ folderInit = <<"readdir">>
    /\ \E ok \in BOOLEAN :
         IF ok /\ folderFiles # {}
         THEN /\ stopFolderWatcher
              /\ credentialFilePaths' = Listing(folderFiles)
              /\ currentIndex' = 0
              /\ isEnabled' = TRUE
              /\ folderInit' = <<"copy", Listing(folderFiles)[1]>>
         ELSE /\ isEnabled' = FALSE
              /\ stopFolderWatcher
              /\ folderInit' = <<"none">>
              /\ UNCHANGED <<credentialFilePaths, currentIndex>>
    /\ hist' = [hist EXCEPT !.owed = @ - Cancels(TRUE)]
    /\ UNCHANGED <<allAccountsExhausted, folderReads, folderFiles, cacheFile,
                   nonWatch>>

\* initializeWithFolder(): copyFirstCredentialToCache() reads the first file
\* and writes the cache file (a failure is logged only), then
\* startFolderWatcher(folderPath).
FolderCopied ==
    /\ folderInit[1] = "copy"
    /\ \E ok \in BOOLEAN :
         cacheFile' = IF ok /\ fileContent[folderInit[2]].readable
                      THEN fileContent[folderInit[2]]
                      ELSE cacheFile
    /\ folderWatcher' = TRUE
    /\ refreshDebounceTimer' = 0
    /\ folderInit' = <<"none">>
    /\ UNCHANGED <<credentialFilePaths, currentIndex, isEnabled,
                   allAccountsExhausted, folderReads, folderFiles, hist,
                   nonWatch>>

\* A .json file f is created in the folder or deleted from it; a running
\* watch reports it ("rename") and handleFolderChange() replaces the timer by
\* one of a second.  History: a burst starts with an event that finds no
\* timer pending.
FolderChange(f) ==
    /\ folderFiles' = IF f \in folderFiles THEN folderFiles \ {f}
                      ELSE folderFiles \cup {f}
    /\ refreshDebounceTimer' = IF folderWatcher THEN DEBOUNCE_MS
                               ELSE refreshDebounceTimer
    /\ hist' = IF folderWatcher /\ refreshDebounceTimer = 0
               THEN [hist EXCEPT !.owed = @ + 1]
               ELSE hist
    /\ UNCHANGED <<credentialFilePaths, currentIndex, isEnabled,
                   allAccountsExhausted, folderReads, folderWatcher,
                   folderInit, cacheFile, nonWatch>>

\* Half a second passes with a timer pending; when the timer runs out its
\* callback runs to `await fs.readdir(folderPath)`.
TimerElapses ==
    /\ refreshDebounceTimer > 0
    /\ refreshDebounceTimer = 1 => folderReads < MaxReads
    /\ refreshDebounceTimer' = refreshDebounceTimer - 1
    /\ folderReads' = folderReads + (IF refreshDebounceTimer = 1 THEN 1 ELSE 0)
    /\ UNCHANGED <<credentialFilePaths, currentIndex, isEnabled,
                   allAccountsExhausted, folderWatcher, folderInit,
                   folderFiles, cacheFile, hist, nonWatch>>

\* handleFolderChange(): "the file list has changed"
FilesChangedNewOnly(newFiles, removedFiles) == newFiles # {}
FilesChanged(newFiles, removedFiles) == newFiles # {} \/ removedFiles # {}

\* handleFolderChange(): the index a new pool starts at.
ReloadedIndexKept == currentIndex
ReloadedIndex == 0

\* The timer callback of handleFolderChange(): readdir answers (or throws,
\* which is logged only) and the listing is compared with the pool.
FolderReload ==
    /\ folderReads > 0
    /\ folderReads' = folderReads - 1
    /\ \E ok \in BOOLEAN :
         LET newFiles == folderFiles \ Range(credentialFilePaths)
             removedFiles == Range(credentialFilePaths) \ folderFiles
         IN /\ IF ok /\ FilesChanged(newFiles, removedFiles)
               THEN /\ credentialFilePaths' = Listing(folderFiles)
                    /\ currentIndex' = ReloadedIndex
                    /\ allAccountsExhausted' = FALSE
               ELSE UNCHANGED <<credentialFilePaths, currentIndex,
                                allAccountsExhausted>>
            /\ hist' = [hist EXCEPT !.owed = @ - 1, !.listed = ok]
    /\ UNCHANGED <<isEnabled, refreshDebounceTimer, folderWatcher, folderInit,
                   folderFiles, cacheFile, nonWatch>>

\* ------------------------------------------------------------------------
\* TokenManager
\* ------------------------------------------------------------------------
REFRESH_THRESHOLD_MS == 5       \* 5 * 60 * 1000 ms, in minutes
DefaultTokenLifetime == 60      \* 3600 * 1000 ms, in minutes

NoTokRes == [kind |-> "none", token |-> 0, expiry |-> 0, at |-> 0,
             via |-> "none", entry |-> 0, had |-> 0]

\* The token manager as constructed, no call made.
TokIdle ==
    /\ cachedToken = 0
    /\ tokenExpiration = 0
    /\ refreshPromise = "null"
    /\ refreshNow = 0
    /\ tokWaiters = {}
    /\ handleCalls = 0
    /\ handlePending = 0
    /\ tokRes = [c \in Procs |-> NoTokRes]

\* getAccessToken(): "a cached token that is not expiring soon"
CachedTokenExpired ==
    /\ cachedToken # 0
    /\ tokenExpiration # 0
    /\ tokenExpiration > now
CachedTokenFresh ==
    /\ cachedToken # 0
    /\ tokenExpiration # 0
    /\ tokenExpiration > now + REFRESH_THRESHOLD_MS

\* getAccessToken(): "if a refresh is already in progress, wait for it"
RefreshNeverInFlight == FALSE
RefreshInFlight == refreshPromise # "null"

\* getAccessToken(authClient) called by c, up to its first suspension point.
\* tokRes[c] keeps, besides the token, the expiry recorded for it, the instant
\* it was handed over, the number of handle calls made before this call and
\* the token the cache held when the call was made.
GetAccessToken(c) ==
    /\ IF CachedTokenFresh
       THEN /\ tokRes' = [tokRes EXCEPT ![c] =
                    [kind |-> "token", token |-> cachedToken,
                     expiry |-> tokenExpiration, at |-> now, via |-> "cache",
                     entry |-> handleCalls, had |-> cachedToken]]
            /\ pc' = [pc EXCEPT ![c] = "tokret"]
            /\ UNCHANGED <<refreshPromise, refreshNow, tokWaiters, handleCalls,
                           handlePending>>
       ELSE IF RefreshInFlight
       THEN /\ tokWaiters' = tokWaiters \cup {c}
            /\ tokRes' = [tokRes EXCEPT ![c] =
                    [NoTokRes EXCEPT !.via = "join", !.entry = handleCalls,
                                     !.had = cachedToken]]
            /\ pc' = [pc EXCEPT ![c] = "tokwait"]
            /\ UNCHANGED <<refreshPromise, refreshNow, handleCalls, handlePending>>
       ELSE \* the async block runs to `await authClient.getAccessToken()`
            /\ refreshPromise' = "pending"
            /\ refreshNow' = now
            /\ handleCalls' = handleCalls + 1
            /\ handlePending' = handlePending + 1
            /\ tokWaiters' = tokWaiters \cup {c}
            /\ tokRes' = [tokRes EXCEPT ![c] =
                    [NoTokRes EXCEPT !.via = "start", !.entry = handleCalls,
                                     !.had = cachedToken]]
            /\ pc' = [pc EXCEPT ![c] = "tokwait"]
    /\ UNCHANGED <<cachedToken, tokenExpiration>>

\* The refresh settles with result r (a tokRes record without via/entry/had):
\* every caller suspended on refreshPromise is handed r.
SettleRefreshKeepsMarker(r) ==
    /\ refreshPromise' = refreshPromise
    /\ tokWaiters' = {}
    /\ tokRes' = [c \in Procs |->
                    IF c \in tokWaiters
                    THEN [r EXCEPT !.via = tokRes[c].via,
                                   !.entry = tokRes[c].entry,
                                   !.had = tokRes[c].had]
                    ELSE tokRes[c]]
    /\ pc' = [c \in Procs |-> IF c \in tokWaiters THEN "tokret" ELSE pc[c]]
SettleRefresh(r) ==
    /\ refreshPromise' = "null"
    /\ tokWaiters' = {}
    /\ tokRes' = [c \in Procs |->
                    IF c \in tokWaiters
                    THEN [r EXCEPT !.via = tokRes[c].via,
                                   !.entry = tokRes[c].entry,
                                   !.had = tokRes[c].had]
                    ELSE tokRes[c]]
    /\ pc' = [c \in Procs |-> IF c \in tokWaiters THEN "tokret" ELSE pc[c]]

\* authClient.getAccessToken() answers the pending refresh with a token and,
\* in authClient.credentials.expiry_date, its expiry (0: no expiry_date).
\* The handle answers with its own cached token only while that token is
\* more than its eager-refresh threshold (5 minutes) from expiry.
RefreshSucceeds ==
    /\ handlePending > 0
    /\ \E expiryDate \in {0, now + REFRESH_THRESHOLD_MS + 1} :
         LET token == handleCalls
             expiration == IF expiryDate # 0 THEN expiryDate
                           ELSE refreshNow + DefaultTokenLifetime
         IN /\ cachedToken' = token
            /\ tokenExpiration' = expiration
            /\ SettleRefresh([NoTokRes EXCEPT !.kind = "token", !.token = token,
                                             !.expiry = expiration, !.at = now])
    /\ handlePending' = handlePending - 1
    /\ UNCHANGED <<refreshNow, handleCalls>>

\* authClient.getAccessToken() throws, or answers without a token.
RefreshFails ==
    /\ handlePending > 0
    /\ SettleRefresh([NoTokRes EXCEPT !.kind = "rejected", !.at = now])
    /\ handlePending' = handlePending - 1
    /\ UNCHANGED <<cachedToken, tokenExpiration, refreshNow, handleCalls>>

\* clearCache()
ClearCache ==
    /\ cachedToken' = 0
    /\ tokenExpiration' = 0
    /\ UNCHANGED <<refreshPromise, refreshNow, tokWaiters, handleCalls,
                   handlePending, tokRes>>

\* ------------------------------------------------------------------------
\* SSE frame parser (GeminiApiClient.parseSSEStream)
\* Text is a sequence of one-character strings.
\* ------------------------------------------------------------------------
LF == "\n"
CR == "\r"
DataPrefix == <<"d", "a", "t", "a", ":", " ">>      \* "data: "
Whitespace == {" ", LF, CR}

RECURSIVE TrimStart(_)
TrimStart(s) ==
    IF s # <<>> /\ Head(s) \in Whitespace THEN TrimStart(Tail(s)) ELSE s

RECURSIVE TrimEnd(_)
TrimEnd(s) ==
    IF s # <<>> /\ s[Len(s)] \in Whitespace
    THEN TrimEnd(SubSeq(s, 1, Len(s) - 1)) ELSE s

\* String.prototype.trim()
Trim(s) == TrimEnd(TrimStart(s))

\* String.prototype.startsWith(p)
StartsWith(s, p) == Len(s) >= Len(p) /\ SubSeq(s, 1, Len(p)) = p

\* String.prototype.substring(n), n counted from 0
Substring(s, n) == SubSeq(s, n + 1, Len(s))

\* String.prototype.split("\n"): always at least one piece
RECURSIVE SplitFrom(_, _)
SplitFrom(piece, s) ==
    IF s = <<>> THEN <<piece>>
    ELSE IF Head(s) = LF THEN <<piece>> \o SplitFrom(<<>>, Tail(s))
    ELSE SplitFrom(Append(piece, Head(s)), Tail(s))
Split(s) == SplitFrom(<<>>, s)

\* JSON.parse over the characters the model feeds: braces, the double
\* quote, the colon, the digit 1 and whitespace.  Over these a JSON value is
\* a number (digits), a string (quote, characters other than quote and line
\* breaks, quote) or an object with no member or one ("{", string, ":",
\* value, "}"), with whitespace allowed around every token.
Quote == "\""
Colon == ":"

\* The first index from i on that holds no whitespace.
RECURSIVE SkipWs(_, _)
SkipWs(s, i) ==
    IF i <= Len(s) /\ s[i] \in Whitespace THEN SkipWs(s, i + 1) ELSE i

\* The index just past the closing quote of a string whose characters start
\* at i; 0 if the string does not close.
RECURSIVE StringEnd(_, _)
StringEnd(s, i) ==
    IF i > Len(s) \/ s[i] \in {LF, CR} THEN 0
    ELSE IF s[i] = Quote THEN i + 1
    ELSE StringEnd(s, i + 1)

RECURSIVE NumberEnd(_, _)
NumberEnd(s, i) ==
    IF i <= Len(s) /\ s[i] = "1" THEN NumberEnd(s, i + 1) ELSE i

\* The index just past the JSON value that starts at i; 0 if there is none.
RECURSIVE ValueEnd(_, _)
ValueEnd(s, i) ==
    IF i > Len(s) THEN 0
    ELSE IF s[i] = "1" THEN NumberEnd(s, i)
    ELSE IF s[i] = Quote THEN StringEnd(s, i + 1)
    ELSE IF s[i] # "{" THEN 0
    ELSE LET j == SkipWs(s, i + 1)
         IN IF j > Len(s) THEN 0
            ELSE IF s[j] = "}" THEN j + 1
            ELSE IF s[j] # Quote THEN 0
            ELSE LET k == StringEnd(s, j + 1)
                     c == SkipWs(s, k)
                 IN IF k = 0 \/ c > Len(s) \/ s[c] # Colon THEN 0
                    ELSE LET v == ValueEnd(s, SkipWs(s, c + 1))
                             e == SkipWs(s, v)
                         IN IF v # 0 /\ e <= Len(s) /\ s[e] = "}"
                            THEN e + 1 ELSE 0

\* JSON.parse(s) does not throw.
JSONValid(s) ==
    LET v == ValueEnd(s, SkipWs(s, 1))
    IN v # 0 /\ SkipWs(s, v) = Len(s) + 1

\* The decoded value, written as its text without the whitespace between
\* tokens: two texts decode to equal values exactly when these agree.
RECURSIVE Canonical(_, _)
Canonical(s, inString) ==
    IF s = <<>> THEN <<>>
    ELSE IF Head(s) = Quote THEN <<Quote>> \o Canonical(Tail(s), ~inString)
    ELSE IF ~inString /\ Head(s) \in Whitespace THEN Canonical(Tail(s), inString)
    ELSE <<Head(s)>> \o Canonical(Tail(s), inString)
JSONParse(s) == Canonical(s, FALSE)

\* tryRecoverMultipleJson(): the index just past the first position at which
\* the brace balance is back to 0, scanning from i with balance bal; -1 if none.
RECURSIVE SplitIndex(_, _, _)
SplitIndex(r, i, bal) ==
    IF i > Len(r) THEN -1
    ELSE LET b == IF r[i] = "{" THEN bal + 1
                  ELSE IF r[i] = "}" THEN bal - 1 ELSE bal
         IN IF b = 0 THEN i ELSE SplitIndex(r, i + 1, b)

\* Recovery that gives up after the first object.
RecoverFirstOnly(remaining) ==
    IF remaining = <<>> \/ remaining[1] # "{" THEN <<>>
    ELSE LET k == SplitIndex(remaining, 1, 0)
         IN IF k # -1 /\ JSONValid(SubSeq(remaining, 1, k))
            THEN <<JSONParse(SubSeq(remaining, 1, k))>> ELSE <<>>

RECURSIVE Recover(_)
Recover(remaining) ==
    IF remaining = <<>> \/ remaining[1] # "{" THEN <<>>
    ELSE LET k == SplitIndex(remaining, 1, 0)
         IN IF k = -1 THEN <<>>
            ELSE LET chunk == SubSeq(remaining, 1, k)
                 IN IF JSONValid(chunk)
                    THEN <<JSONParse(chunk)>>
                           \o Recover(Trim(SubSeq(remaining, k + 1, Len(remaining))))
                    ELSE <<>>
tryRecoverMultipleJson(input) == Recover(Trim(input))

\* What one event text yields: the parsed object, else what recovery finds.
Emit(obj) ==
    IF JSONValid(obj) THEN <<JSONParse(obj)>> ELSE tryRecoverMultipleJson(obj)

\* The for-loop over the complete lines: st is [obj, out].
HandleLine(st, line) ==
    IF Trim(line) = <<>>
    THEN IF st.obj # <<>>
         THEN [obj |-> <<>>, out |-> st.out \o Emit(st.obj)]
         ELSE st
    ELSE IF StartsWith(line, DataPrefix)
    THEN [st EXCEPT !.obj = st.obj \o Substring(line, Len(DataPrefix))]
    ELSE st

RECURSIVE HandleLines(_, _)
HandleLines(st, lines) ==
    IF lines = <<>> THEN st
    ELSE HandleLines(HandleLine(st, Head(lines)), Tail(lines))

\* buffer = lines.pop() || ""
CarryDropped(lines) == <<>>
Carry(lines) == lines[Len(lines)]

\* One reader.read() that delivers `value`: st is [buffer, obj, out].
ReadValue(st, value) ==
    LET lines == Split(st.buffer \o value)
        after == HandleLines([obj |-> st.obj, out |-> st.out],
                             SubSeq(lines, 1, Len(lines) - 1))
    IN [buffer |-> Carry(lines), obj |-> after.obj, out |-> after.out]

\* reader.read() reports done: flush the object buffer.
ReadDoneParseOnly(st) ==
    IF st.obj # <<>> /\ JSONValid(st.obj)
    THEN [st EXCEPT !.out = st.out \o <<JSONParse(st.obj)>>] ELSE st
ReadDone(st) ==
    IF st.obj # <<>> THEN [st EXCEPT !.out = st.out \o Emit(st.obj)] ELSE st

SSEStart == [buffer |-> <<>>, obj |-> <<>>, out |-> <<>>]
NoCut == [prefix |-> FALSE, payload |-> FALSE]

\* No stream is being parsed.
SSEIdle ==
    /\ sseText = <<>>
    /\ sseInput = <<>>
    /\ buffer = <<>>
    /\ objectBuffer = <<>>
    /\ sseOut = <<>>
    /\ ssePc = "done"
    /\ sseCut = NoCut

\* The reader delivers the next n characters of the body as one chunk.
SSERead(n) ==
    /\ ssePc = "reading"
    /\ n \in 1..Len(sseInput)
    /\ LET st == ReadValue([buffer |-> buffer, obj |-> objectBuffer,
                            out |-> sseOut], SubSeq(sseInput, 1, n))
       IN /\ buffer' = st.buffer
          /\ objectBuffer' = st.obj
          /\ sseOut' = st.out
          /\ sseCut' =
                [prefix |-> sseCut.prefix
                     \/ /\ st.buffer # <<>>
                        /\ Len(st.buffer) < Len(DataPrefix)
                        /\ st.buffer = SubSeq(DataPrefix, 1, Len(st.buffer)),
                 payload |-> sseCut.payload
                     \/ /\ Len(st.buffer) > Len(DataPrefix)
                        /\ StartsWith(st.buffer, DataPrefix)]
    /\ sseInput' = Substring(sseInput, n)
    /\ UNCHANGED <<sseText, ssePc>>

\* The body has ended.
SSEEnd ==
    /\ ssePc = "reading"
    /\ sseInput = <<>>
    /\ sseOut' = ReadDone([buffer |-> buffer, obj |-> objectBuffer,
                           out |-> sseOut]).out
    /\ ssePc' = "done"
    /\ UNCHANGED <<sseText, sseInput, buffer, objectBuffer, sseCut>>

\* ------------------------------------------------------------------------
\* GeminiApiClient: streamContentInternal, callEndpoint, reloadCredentials,
\* discoverProjectId (src/src/gemini/client.ts)
\* ------------------------------------------------------------------------
DiscTask == 0                   \* the async block of discoverProjectId()
EngCallers == {1, 2}            \* concurrent callers of streamContent()
EngTasks == {DiscTask} \cup EngCallers
Solo == {1}                     \* the caller of the runs with one call at a time
SoloTasks == {DiscTask} \cup Solo

MAX_RETRIES == 30               \* polls of onboardUser
StaticProject == 99             \* a --google-cloud-project given at start

RotStatuses == {429, 403, 504}
ErrStatuses == {401, 403, 429, 500, 504}

\* The project identity the upstream holds for account a.
ProjectOf(a) == a

\* One activation of streamContentInternal / callEndpoint: its retryCount,
\* the response it got and how it went on ("401": token-refresh retry,
\* "rot": rotation).
NewFrame(rc) == [retryCount |-> rc, status |-> 0, text |-> 0, how |-> "none"]

\* reloadCredentials(): the account the handle held when it was called and
\* the account whose credentials it read from the cache file.
NoReload == [from |-> 0, ref |-> 0]

Top(c) == stack[c][Len(stack[c])]
Parents(c) == SubSeq(stack[c], 1, Len(stack[c]) - 1)
SetTop(c, f) == [stack EXCEPT ![c] = [@ EXCEPT ![Len(@)] = f]]

NoResult == [kind |-> "none", msg |-> "none", statusCode |-> 0, responseText |-> 0]
Completed == [NoResult EXCEPT !.kind = "ok"]
GeminiApiError(msg, statusCode, responseText) ==
    [kind |-> "GeminiApiError", msg |-> msg, statusCode |-> statusCode,
     responseText |-> responseText]
\* "Stream request failed: <status> <text>" / "API call failed with status ..."
Failed(f) == GeminiApiError("failed", f.status, f.text)
\* "All <N> OAuth accounts have been exhausted. Last error: <status>"
Exhausted(f) == GeminiApiError("exhausted", f.status, f.text)
\* "Stream request timed out" / "Request timed out"
TimedOut == GeminiApiError("timedout", 408, 0)
\* what fetch() throws otherwise
NetworkError == [NoResult EXCEPT !.kind = "Error"]

\* catch (retryError) around the recursive retry of frame f
InnerCatch(f, retryError) ==
    IF f.retryCount + 1 >= getAccountCount THEN Exhausted(f) ELSE retryError

\* catch (rotationError) around the whole rotation block of frame f: the
\* error is logged, and control falls through to the throw that ends the
\* not-ok branch.
OuterCatch(f, rotationError) == Failed(f)

\* The error that leaves the outermost frame when the frame above `parents`
\* throws e.  A frame that retried after a 401 has no handler.
RECURSIVE Propagate(_, _)
Propagate(parents, e) ==
    IF parents = <<>> THEN e
    ELSE LET f == parents[Len(parents)]
             rest == SubSeq(parents, 1, Len(parents) - 1)
         IN IF f.how = "401" THEN Propagate(rest, e)
            ELSE Propagate(rest, OuterCatch(f, InnerCatch(f, e)))

\* The discovery block: where it is, the polls made, and the account whose
\* token the request in flight carries.
NoDisc == [stage |-> "none", polls |-> 0, acct |-> 0]

\* The discovery block returns v, having left pid in this.projectId; its
\* finally clears projectIdPromise and every task suspended on it gets v.
DiscSettleKeepsPromise(pid, v) ==
    /\ projectId' = pid
    /\ projectIdPromise' = projectIdPromise
    /\ projRes' = [t \in Procs |-> IF t \in projWaiters THEN v ELSE projRes[t]]
    /\ pc' = [t \in Procs |->
                IF t \in projWaiters THEN "projret"
                ELSE IF t = DiscTask THEN "idle" ELSE pc[t]]
    /\ projWaiters' = {}
    /\ disc' = NoDisc
    /\ stack' = [stack EXCEPT ![DiscTask] = <<>>]
    /\ UNCHANGED result
DiscSettle(pid, v) ==
    /\ projectId' = pid
    /\ projectIdPromise' = "null"
    /\ projRes' = [t \in Procs |-> IF t \in projWaiters THEN v ELSE projRes[t]]
    /\ pc' = [t \in Procs |->
                IF t \in projWaiters THEN "projret"
                ELSE IF t = DiscTask THEN "idle" ELSE pc[t]]
    /\ projWaiters' = {}
    /\ disc' = NoDisc
    /\ stack' = [stack EXCEPT ![DiscTask] = <<>>]
    /\ UNCHANGED result

\* The discovery block issues its next callEndpoint().
DiscCall(stage, polls) ==
    /\ disc' = [stage |-> stage, polls |-> polls, acct |-> authAcct]
    /\ stack' = [stack EXCEPT ![DiscTask] = <<NewFrame(0)>>]
    /\ pc' = [pc EXCEPT ![DiscTask] = "fetch"]
    /\ UNCHANGED <<projectId, projectIdPromise, projWaiters, projRes, result>>

\* Error e leaves the outermost frame of task c.  A caller's call has failed
\* with e; in the discovery block the first loadCodeAssist is followed by the
\* second, any later failure makes the block return null.
Throw(c, e) ==
    IF c \in EngCallers
    THEN /\ stack' = [stack EXCEPT ![c] = <<>>]
         /\ result' = [result EXCEPT ![c] = e]
         /\ pc' = [pc EXCEPT ![c] = "done"]
         /\ UNCHANGED <<projectId, projectIdPromise, projWaiters, projRes, disc>>
    ELSE IF disc.stage = "load1" THEN DiscCall("load2", 0)
    ELSE DiscSettle(projectId, 0)

\* discoverProjectId() called by task c, up to its first suspension point.
Discover(c) ==
    /\ IF googleCloudProject # 0 \/ projectId # 0
       THEN /\ projRes' = [projRes EXCEPT ![c] =
                    IF googleCloudProject # 0 THEN googleCloudProject
                    ELSE projectId]
            /\ pc' = [pc EXCEPT ![c] = "projret"]
            /\ UNCHANGED <<projectIdPromise, projWaiters, disc, stack>>
       ELSE IF projectIdPromise # "null"
       THEN /\ projWaiters' = projWaiters \cup {c}
            /\ pc' = [pc EXCEPT ![c] = "projwait"]
            /\ UNCHANGED <<projectIdPromise, projRes, disc, stack>>
       ELSE \* the async block runs to the fetch of its first callEndpoint()
            /\ projectIdPromise' = "pending"
            /\ projWaiters' = {c}
            /\ disc' = [stage |-> "load1", polls |-> 0, acct |-> authAcct]
            /\ stack' = [stack EXCEPT ![DiscTask] = <<NewFrame(0)>>]
            /\ pc' = [pc EXCEPT ![c] = "projwait", ![DiscTask] = "fetch"]
            /\ UNCHANGED projRes
    /\ UNCHANGED <<projectId, result>>

NoObs == [n |-> 0, only |-> {429, 403}, last |-> 0, clean |-> TRUE]

\* History only.  A response with status s reaches caller or discovery task
\* c: responses to callers are numbered, and a response's text is its number;
\* obs.only is the smaller of {429, 403} and {429, 403, 504} that holds every
\* status the callers got, or {} if neither does; obs.clean is FALSE once a
\* fetch of a caller threw or one of its rotations or reloads failed.
Seen(c, s) ==
    IF c \in EngCallers
    THEN [obs EXCEPT !.n = @ + 1, !.last = s,
                     !.only = IF @ = {} \/ s \notin RotStatuses THEN {}
                              ELSE IF s = 504 THEN RotStatuses ELSE @]
    ELSE obs
TextOf(c) == IF c \in EngCallers THEN obs.n + 1 ELSE 0
Unclean(c) == IF c \in EngCallers THEN [obs EXCEPT !.clean = FALSE] ELSE obs

\* ---- The frames of a 200 response, as parseSSEStream yields them: the
\* parts of response.candidates[0].content and response.usageMetadata.
\* A part's sig is its thoughtSignature, 0 when it has none.
NoUsageMetadata ==
    [has |-> FALSE, promptTokenCount |-> 0, candidatesTokenCount |-> 0,
     thoughtsTokenCount |-> 0]
UsageMetadata(p, c, t) ==
    [has |-> TRUE, promptTokenCount |-> p, candidatesTokenCount |-> c,
     thoughtsTokenCount |-> t]
TextPart(text, thought, sig) ==
    [kind |-> "text", text |-> text, thought |-> thought, sig |-> sig]
FunctionCallPart(sig) ==
    [kind |-> "functionCall", text |-> <<>>, thought |-> FALSE, sig |-> sig]
FunctionResponsePart(sig) ==
    [kind |-> "functionResponse", text |-> <<>>, thought |-> FALSE, sig |-> sig]

\* The frames the upstream sends in the runs explored.
FrameKinds ==
    { [parts |-> <<TextPart(<<"H">>, FALSE, 0)>>, usage |-> NoUsageMetadata],
      [parts |-> <<TextPart(<<"t">>, TRUE, 1)>>, usage |-> NoUsageMetadata],
      [parts |-> <<TextPart(<<"i">>, FALSE, 0), FunctionCallPart(2)>>,
       usage |-> NoUsageMetadata],
      [parts |-> <<FunctionResponsePart(3)>>, usage |-> NoUsageMetadata],
      [parts |-> <<>>, usage |-> UsageMetadata(10, 5, 0)],
      [parts |-> <<TextPart(<<"!">>, FALSE, 0)>>, usage |-> UsageMetadata(7, 3, 2)] }

\* The bodies of up to MaxFrames frames.
OkBodies == UNION { [1..k -> FrameKinds] : k \in 0..MaxFrames }

\* ---- OpenAI.StreamChunk: the delta (role marker, content, reasoning, tool
\* calls; a missing or empty field is <<>>), finish_reason and usage.
NoUsageData ==
    [has |-> FALSE, prompt_tokens |-> 0, completion_tokens |-> 0,
     total_tokens |-> 0]
NoDelta == [role |-> FALSE, content |-> <<>>, reasoning |-> <<>>,
            tool_calls |-> <<>>]
createOpenAIChunk(delta, finishReason) ==
    [delta |-> delta, finish_reason |-> finishReason, usage |-> NoUsageData]

\* The locals of the loop over the frames of one response, with the body and
\* the chunks yielded so far.  toolCallId 0 is undefined; a tool call's id is
\* fresh, here its index + 1.
NoStream ==
    [body |-> <<>>, pos |-> 0, chunks |-> <<>>, toolCallId |-> 0,
     toolCallIndex |-> 0, usageData |-> NoUsageData, reasoningTokens |-> 0]

\* One part of a frame: st is [loop, firstChunk, sig], the loop's locals and
\* the client's firstChunk and _lastThoughtSignature.
HandlePart(st, part) ==
    LET sig == IF part.sig # 0 THEN part.sig ELSE st.sig
        yield(delta) ==
            [st EXCEPT !.loop.chunks =
                           Append(@, createOpenAIChunk(
                                        [delta EXCEPT !.role = st.firstChunk],
                                        "null")),
                       !.firstChunk = FALSE,
                       !.sig = sig]
    IN IF part.kind = "text"
       THEN IF part.thought
            THEN yield([NoDelta EXCEPT !.reasoning = part.text])
            ELSE yield([NoDelta EXCEPT !.content = part.text])
       ELSE IF part.kind = "functionCall"
       THEN LET y == yield([NoDelta EXCEPT !.tool_calls =
                              << [index |-> st.loop.toolCallIndex,
                                  id |-> st.loop.toolCallIndex + 1] >>])
            IN [y EXCEPT !.loop.toolCallId = st.loop.toolCallIndex + 1,
                         !.loop.toolCallIndex = @ + 1]
       ELSE IF part.kind = "functionResponse"
       THEN [st EXCEPT !.sig = sig]
       ELSE st

RECURSIVE HandleParts(_, _)
HandleParts(st, parts) ==
    IF parts = <<>> THEN st
    ELSE HandleParts(HandlePart(st, Head(parts)), Tail(parts))

\* One frame: its parts, then its usage metadata.
HandleFrame(st, frame) ==
    LET after == HandleParts(st, frame.parts)
        u == frame.usage
    IN IF u.has
       THEN [after EXCEPT
               !.loop.usageData =
                   [has |-> TRUE,
                    prompt_tokens |-> u.promptTokenCount,
                    completion_tokens |-> u.candidatesTokenCount,
                    total_tokens |-> u.promptTokenCount + u.candidatesTokenCount],
               !.loop.reasoningTokens = u.thoughtsTokenCount]
       ELSE after

\* let finishReason = toolCallId ? "tool_calls" : "stop", and the override
\* that follows it.
FinishReasonStop(toolCallId, sig) == "stop"
FinishReason(toolCallId, sig) ==
    LET finishReason == IF toolCallId # 0 THEN "tool_calls" ELSE "stop"
    IN IF toolCallId # 0 /\ sig # 0 /\ finishReason = "stop"
       THEN "tool_calls" ELSE finishReason

\* The closing chunk, with the usage seen last.
FinalChunkNoThoughts(loop, sig) ==
    LET finalChunk == createOpenAIChunk(NoDelta,
                                        FinishReason(loop.toolCallId, sig))
    IN IF loop.usageData.has
       THEN [finalChunk EXCEPT !.usage = loop.usageData]
       ELSE finalChunk
FinalChunk(loop, sig) ==
    LET finalChunk == createOpenAIChunk(NoDelta,
                                        FinishReason(loop.toolCallId, sig))
    IN IF loop.usageData.has
       THEN [finalChunk EXCEPT !.usage =
               IF loop.reasoningTokens > 0
               THEN [loop.usageData EXCEPT
                       !.completion_tokens = @ + loop.reasoningTokens,
                       !.total_tokens = @ + loop.reasoningTokens]
               ELSE loop.usageData]
       ELSE finalChunk

\* getCompletion(): what it returns for the chunks it collected.
NoCompletion ==
    [content |-> <<>>, reasoning |-> <<>>, tool_calls |-> <<>>,
     usage |-> [has |-> FALSE, inputTokens |-> 0, outputTokens |-> 0]]

\* Aggregation that keeps the content of the first chunk only.
AggregateFirstOnly(acc, chunks) ==
    IF chunks = <<>> THEN acc
    ELSE [acc EXCEPT !.content = chunks[1].delta.content]

RECURSIVE Aggregate(_, _)
Aggregate(acc, chunks) ==
    IF chunks = <<>> THEN acc
    ELSE LET chunk == Head(chunks)
         IN Aggregate(
              [content |-> acc.content \o chunk.delta.content,
               reasoning |-> acc.reasoning \o chunk.delta.reasoning,
               tool_calls |-> acc.tool_calls \o chunk.delta.tool_calls,
               usage |-> IF chunk.usage.has
                         THEN [has |-> TRUE,
                               inputTokens |-> chunk.usage.prompt_tokens,
                               outputTokens |-> chunk.usage.completion_tokens]
                         ELSE acc.usage],
              Tail(chunks))

\* The client as constructed with a static project: no discovery runs.
EngIdle ==
    /\ googleCloudProject = StaticProject
    /\ projectId = 0
    /\ projectIdPromise = "null"
    /\ authAcct = 1
    /\ stack = [c \in EngTasks |-> <<>>]
    /\ result = [c \in EngCallers |-> NoResult]
    /\ projWaiters = {}
    /\ projRes = [c \in Procs |-> 0]
    /\ disc = NoDisc
    /\ reload = [c \in EngTasks |-> NoReload]
    /\ reqProject = 0
    /\ blacklisted = <<>>
    /\ obs = NoObs
    /\ accessToken = 1
    /\ firstChunk = TRUE
    /\ lastThoughtSignature = 0
    /\ stream = [c \in EngCallers |-> NoStream]
    /\ completion = [c \in EngCallers |-> NoCompletion]
    /\ reqModel = 0
    /\ self = <<>>
    /\ reqThoughtSignature = 0

\* streamContent(request) called by c: streamContentInternal(request, 0) runs
\* to its fetch.
StreamCall(c) ==
    /\ pc[c] = "idle"
    /\ stack' = [stack EXCEPT ![c] = <<NewFrame(0)>>]
    /\ pc' = [pc EXCEPT ![c] = "token"]
    /\ UNCHANGED <<rotVars, envVars, nonRot, rotRes, hist, googleCloudProject, accessToken,
                   projectId, projectIdPromise, authAcct, result, projWaiters,
                   projRes, disc, reqProject, reload, blacklisted, obs>>

\* streamContentInternal: authClient.getAccessToken() answers.  The handle
\* returns the access token it holds; when it holds none it fetches one with
\* the credentials it has, which may fail.
GetToken(c) ==
    /\ pc[c] = "token"
    /\ \E ok \in (IF accessToken = 0 THEN BOOLEAN ELSE {TRUE}) :
         IF ok
         THEN /\ accessToken' = (IF accessToken = 0 THEN authAcct ELSE accessToken)
              /\ pc' = [pc EXCEPT ![c] = "fetch"]
              /\ UNCHANGED <<stack, result, projectId, projectIdPromise,
                             projWaiters, projRes, disc, obs>>
         ELSE /\ Throw(c, Propagate(Parents(c), NetworkError))
              /\ obs' = Unclean(c)
              /\ UNCHANGED accessToken
    /\ UNCHANGED <<rotVars, envVars, nonRot, rotRes, hist, googleCloudProject,
                   authAcct, reqProject, reload, blacklisted>>

\* The stream request of c is answered 200 with `body`: the loop over the
\* parsed frames starts with fresh locals; what the caller was yielded
\* before stays with the caller.
ResponseOk(c, body) ==
    /\ pc[c] = "fetch"
    /\ stream' = [stream EXCEPT ![c] = [NoStream EXCEPT !.body = body,
                                                       !.chunks = stream[c].chunks]]
    /\ pc' = [pc EXCEPT ![c] = "stream"]
    /\ obs' = Seen(c, 200)
    /\ UNCHANGED <<rotVars, envVars, tokVars, sseVars, rotRes, hist,
                   googleCloudProject, accessToken, projectId,
                   projectIdPromise, authAcct, stack, result, projWaiters,
                   projRes, disc, reqProject, reload, blacklisted,
                   firstChunk, lastThoughtSignature, completion, reqModel, self,
                   reqThoughtSignature>>

\* One turn of `for await (const jsonData of this.parseSSEStream(...))`:
\* the next frame's chunks are yielded and collected by the caller.
StreamFrame(c) ==
    /\ pc[c] = "stream"
    /\ stream[c].pos < Len(stream[c].body)
    /\ LET st == HandleFrame([loop |-> stream[c], firstChunk |-> firstChunk,
                              sig |-> lastThoughtSignature],
                             stream[c].body[stream[c].pos + 1])
       IN /\ stream' = [stream EXCEPT ![c] = [st.loop EXCEPT !.pos = @ + 1]]
          /\ firstChunk' = st.firstChunk
          /\ lastThoughtSignature' = st.sig
    /\ UNCHANGED <<rotVars, envVars, tokVars, sseVars, rotRes, hist, engVars,
                   pc, completion, reqModel, self,
                   reqThoughtSignature>>

\* The body has ended: the closing chunk is yielded, every activation of
\* streamContentInternal returns, and getCompletion() returns the aggregate
\* of the chunks it collected.
StreamEnd(c) ==
    /\ pc[c] = "stream"
    /\ stream[c].pos = Len(stream[c].body)
    /\ LET chunks == Append(stream[c].chunks,
                            FinalChunk(stream[c], lastThoughtSignature))
       IN /\ stream' = [stream EXCEPT ![c].chunks = chunks]
          /\ completion' = [completion EXCEPT ![c] = Aggregate(NoCompletion, chunks)]
    /\ stack' = [stack EXCEPT ![c] = <<>>]
    /\ result' = [result EXCEPT ![c] = Completed]
    /\ pc' = [pc EXCEPT ![c] = "done"]
    /\ UNCHANGED <<rotVars, envVars, tokVars, sseVars, rotRes, hist,
                   googleCloudProject, accessToken, projectId,
                   projectIdPromise, authAcct, projWaiters, projRes, disc,
                   reqProject, reload, blacklisted, obs, firstChunk,
                   lastThoughtSignature, reqModel, self,
                   reqThoughtSignature>>

\* reader.read() rejects while the body of c's response is being streamed:
\* the error leaves the loop and the generators that delegate to it.
StreamFails(c) ==
    /\ pc[c] = "stream"
    /\ Throw(c, Propagate(Parents(c), NetworkError))
    /\ obs' = Unclean(c)
    /\ UNCHANGED <<rotVars, envVars, nonRot, rotRes, hist, googleCloudProject,
                   accessToken, authAcct, reqProject, reload, blacklisted>>

\* AutoModelSwitchingHelper: the status is of the rate-limit class, and a
\* substitute for the request's model is left.
isRateLimitError(statusCode) == statusCode = 429
shouldAttemptFallback(model) == model < MaxFallbacks

\* streamContent(): the condition of its catch under which the error is
\* handed to handleStreamingFallback (auto model switch not disabled).
FallsBack(error, model) ==
    /\ error.kind = "GeminiApiError"
    /\ isRateLimitError(error.statusCode)
    /\ shouldAttemptFallback(model)

\* streamContent(): the error that left streamContentInternal is caught and
\* handleStreamingFallback runs the callback: a new GeminiApiClient over the
\* same handle, with its own firstChunk and _lastThoughtSignature, streams
\* the request with the substitute model from retry count 0.
Fallback(c) ==
    /\ pc[c] = "done"
    /\ FallsBack(result[c], reqModel)
    /\ reqModel' = reqModel + 1
    /\ self' = Append(self, [projectId |-> projectId,
                             firstChunk |-> firstChunk,
                             lastThoughtSignature |-> lastThoughtSignature])
    /\ projectId' = 0
    /\ firstChunk' = TRUE
    /\ lastThoughtSignature' = 0
    /\ stack' = [stack EXCEPT ![c] = <<NewFrame(0)>>]
    /\ result' = [result EXCEPT ![c] = NoResult]
    /\ pc' = [pc EXCEPT ![c] = "token"]
    /\ UNCHANGED <<rotVars, envVars, tokVars, sseVars, rotRes, hist,
                   googleCloudProject, accessToken,
                   projectIdPromise, authAcct, projWaiters, projRes, disc,
                   reqProject, reload, blacklisted, obs, stream, completion,
                   reqThoughtSignature>>

\* The fallback client's stream has ended and with it the streamContent()
\* call of the client that made it; the caller's next request goes to that
\* client, the one the server holds.
FallbackReturns(c) ==
    /\ pc[c] = "done"
    /\ self # <<>>
    /\ ~FallsBack(result[c], reqModel)
    /\ obs.n < MaxStreams * MaxAccounts
    /\ projectId' = self[1].projectId
    /\ firstChunk' = self[1].firstChunk
    /\ lastThoughtSignature' = self[1].lastThoughtSignature
    /\ self' = <<>>
    /\ reqModel' = 0
    /\ pc' = [pc EXCEPT ![c] = "idle"]
    /\ stream' = [stream EXCEPT ![c] = NoStream]
    /\ completion' = [completion EXCEPT ![c] = NoCompletion]
    /\ result' = [result EXCEPT ![c] = NoResult]
    /\ UNCHANGED <<rotVars, envVars, tokVars, sseVars, rotRes, hist,
                   googleCloudProject, accessToken, projectIdPromise,
                   authAcct, stack, projWaiters, projRes, disc, reqProject,
                   reload, blacklisted, obs, reqThoughtSignature>>

\* The caller of a stream that has ended calls streamContent() again on the
\* same client.
StreamReturn(c) ==
    /\ pc[c] = "done"
    /\ obs.n < MaxStreams
    /\ pc' = [pc EXCEPT ![c] = "idle"]
    /\ stream' = [stream EXCEPT ![c] = NoStream]
    /\ completion' = [completion EXCEPT ![c] = NoCompletion]
    /\ result' = [result EXCEPT ![c] = NoResult]
    /\ UNCHANGED <<rotVars, envVars, tokVars, sseVars, rotRes, hist,
                   googleCloudProject, accessToken, projectId,
                   projectIdPromise, authAcct, stack, projWaiters, projRes,
                   disc, reqProject, reload, blacklisted, obs, firstChunk,
                   lastThoughtSignature, reqModel, self,
                   reqThoughtSignature>>

\* fetch() of task c throws: a timeout becomes GeminiApiError 408, anything
\* else is rethrown as it is.
FetchThrows(c, e) ==
    /\ pc[c] = "fetch"
    /\ Throw(c, Propagate(Parents(c), e))
    /\ obs' = Unclean(c)
    /\ UNCHANGED <<rotVars, envVars, nonRot, rotRes, hist, googleCloudProject,
                   accessToken, authAcct, reqProject, reload, blacklisted>>

\* The condition under which a not-ok response is retried with a fresh token.
Retries401Always(f, s) == s = 401
Retries401(f, s) == s = 401 /\ f.retryCount = 0

\* streamContentInternal: 401 on the first attempt: the handle's access token
\* is dropped and the call retried with retryCount + 1.
Retry401(c) ==
    /\ pc[c] = "fetch"
    /\ Retries401(Top(c), 401)
    /\ LET f == [Top(c) EXCEPT !.status = 401, !.text = TextOf(c), !.how = "401"]
       IN stack' = [SetTop(c, f) EXCEPT ![c] = Append(@, NewFrame(f.retryCount + 1))]
    /\ accessToken' = 0
    /\ pc' = [pc EXCEPT ![c] = "token"]
    /\ obs' = Seen(c, 401)
    /\ UNCHANGED <<rotVars, envVars, nonRot, rotRes, hist, googleCloudProject,
                   projectId, projectIdPromise, authAcct, result, projWaiters,
                   projRes, disc, reqProject, reload, blacklisted>>

\* The condition under which a not-ok response starts a rotation.
RotatesExcept403(f, s) ==
    /\ s \in RotStatuses \ {403}
    /\ f.retryCount < getAccountCount
    /\ isRotationEnabled
Rotates(f, s) ==
    /\ s \in RotStatuses
    /\ f.retryCount < getAccountCount
    /\ isRotationEnabled

\* OAuthRotator.blacklistAccount(path): the account is marked degraded.
blacklistAccount(f) == Append(blacklisted, f)

\* A 429/403/504 answer to task c with rotation available: the account is
\* blacklisted on 403 and rotateCredentials() is called.
ResponseRotate(c, s) ==
    /\ pc[c] = "fetch"
    /\ Rotates(Top(c), s)
    /\ stack' = SetTop(c, [Top(c) EXCEPT !.status = s, !.text = TextOf(c),
                                        !.how = "rot"])
    /\ blacklisted' = IF s = 403 /\ getCurrentAccountPath # NoFile
                      THEN blacklistAccount(getCurrentAccountPath)
                      ELSE blacklisted
    /\ obs' = Seen(c, s)
    /\ RotateCredentials(c)
    /\ UNCHANGED <<googleCloudProject, accessToken, projectId, projectIdPromise,
                   authAcct, result, projWaiters, projRes, disc, reqProject,
                   reload>>

\* Any other not-ok answer to task c ends the frame with its own error.
ResponseFail(c, s) ==
    /\ pc[c] = "fetch"
    /\ ~Rotates(Top(c), s)
    /\ ~(Retries401(Top(c), s) /\ c \in EngCallers)
    /\ Throw(c, Propagate(Parents(c),
                          Failed([Top(c) EXCEPT !.status = s, !.text = TextOf(c)])))
    /\ obs' = Seen(c, s)
    /\ UNCHANGED <<rotVars, envVars, nonRot, rotRes, hist, googleCloudProject,
                   accessToken, authAcct, reqProject, reload, blacklisted>>

\* rotateCredentials() has resolved for task c: with a path,
\* reloadCredentials(path) is called and runs to its readFile; with null, or
\* when it threw, the frame ends with its own error.
AfterRotate(c) ==
    /\ pc[c] = "rotret"
    /\ IF rotRes[c][1] = "fulfilled"
       THEN /\ pc' = [pc EXCEPT ![c] = "reload"]
            /\ UNCHANGED <<stack, result, projectId, projectIdPromise,
                           projWaiters, projRes, disc, obs>>
       ELSE /\ Throw(c, Propagate(Parents(c), Failed(Top(c))))
            /\ obs' = Unclean(c)
    /\ UNCHANGED <<rotVars, envVars, nonRot, rotRes, hist, googleCloudProject,
                   accessToken, authAcct, reqProject, reload, blacklisted>>

\* reloadCredentials(): the cache file is read (or the read fails, which is
\* rethrown into the rotation block); setCredentials, this.projectId = null,
\* and refreshAccessToken() is called.
ReloadRead(c) ==
    /\ pc[c] = "reload"
    /\ \E ok \in (IF cacheFile.readable THEN BOOLEAN ELSE {FALSE}) :
         IF ok
         THEN /\ authAcct' = cacheFile.acct
              /\ accessToken' = 0
              /\ projectId' = 0
              /\ reload' = [reload EXCEPT ![c] = [from |-> authAcct,
                                                  ref |-> cacheFile.acct]]
              /\ pc' = [pc EXCEPT ![c] = "refresh"]
              /\ UNCHANGED <<stack, result, projectIdPromise, projWaiters,
                             projRes, disc, obs>>
         ELSE /\ Throw(c, Propagate(Parents(c), Failed(Top(c))))
              /\ obs' = Unclean(c)
              /\ UNCHANGED <<authAcct, accessToken, reload>>
    /\ UNCHANGED <<rotVars, envVars, nonRot, rotRes, hist, googleCloudProject,
                   reqProject, blacklisted>>

\* reloadCredentials(): refreshAccessToken() answers; the refreshed
\* credentials are set and the cache file write is issued, or the failure is
\* swallowed and discoverProjectId() is called.
ReloadRefresh(c) ==
    /\ pc[c] = "refresh"
    /\ \E ok \in BOOLEAN :
         IF ok
         THEN /\ authAcct' = reload[c].ref
              /\ accessToken' = reload[c].ref
              /\ pc' = [pc EXCEPT ![c] = "reloadwrite"]
              /\ UNCHANGED <<stack, result, projectId, projectIdPromise,
                             projWaiters, projRes, disc>>
         ELSE /\ Discover(c)
              /\ UNCHANGED <<authAcct, accessToken>>
    /\ UNCHANGED <<rotVars, envVars, nonRot, rotRes, hist, googleCloudProject,
                   reqProject, reload, blacklisted, obs>>

\* reloadCredentials(): the refreshed credentials are written to the cache
\* file and merged into the source file; then discoverProjectId() is called.
ReloadWrite(c) ==
    /\ pc[c] = "reloadwrite"
    /\ cacheFile' = FileOf(reload[c].ref, ValidKind)
    /\ Discover(c)
    /\ UNCHANGED <<rotVars, now, localTimezone, fileContent, folderFiles, nonRot, rotRes,
                   hist, googleCloudProject, accessToken, authAcct, reqProject, reload,
                   blacklisted, obs>>

\* discoverProjectId() has resolved for task c: a caller's request gets the
\* new project, and the call is retried with retryCount + 1.
AfterDiscover(c) ==
    /\ pc[c] = "projret"
    /\ reqProject' = IF c \in EngCallers /\ projRes[c] # 0 THEN projRes[c]
                     ELSE reqProject
    /\ stack' = [stack EXCEPT ![c] = Append(@, NewFrame(Top(c).retryCount + 1))]
    /\ pc' = [pc EXCEPT ![c] = IF c \in EngCallers THEN "token" ELSE "fetch"]
    /\ reload' = [reload EXCEPT ![c] = NoReload]
    /\ disc' = IF c = DiscTask THEN [disc EXCEPT !.acct = authAcct] ELSE disc
    /\ UNCHANGED <<rotVars, envVars, nonRot, rotRes, hist, googleCloudProject, accessToken,
                   projectId, projectIdPromise, authAcct, result, projWaiters,
                   projRes, blacklisted, obs>>

\* What a 200 answer to the discovery block's request can carry.
DiscBodies == {"project", "default-project", "none", "pending"}

\* The discovery block's callEndpoint() returns a body.  loadCodeAssist with
\* a project ends the block; without one the next request follows.
\* onboardUser not yet done ("pending") is followed by a 500 ms sleep.
DiscResponse(body) ==
    /\ pc[DiscTask] = "fetch"
    /\ (body = "pending") => (disc.stage = "onboard")
    /\ LET p == ProjectOf(disc.acct)
       IN IF body = "project" THEN DiscSettle(p, p)
          ELSE IF body = "default-project" THEN DiscSettle(0, 0)
          ELSE IF body = "pending"
          THEN /\ pc' = [pc EXCEPT ![DiscTask] = "sleep"]
               /\ stack' = [stack EXCEPT ![DiscTask] = <<>>]
               /\ UNCHANGED <<projectId, projectIdPromise, projWaiters,
                              projRes, disc, result>>
          ELSE IF disc.stage = "load1" THEN DiscCall("load2", 0)
          ELSE IF disc.stage = "load2" THEN DiscCall("onboard", 0)
          ELSE DiscSettle(0, 0)
    /\ UNCHANGED <<rotVars, envVars, nonRot, rotRes, hist, googleCloudProject,
                   accessToken, authAcct, reqProject, reload, blacklisted, obs>>

\* while (retryCount < MAX_RETRIES), after retryCount++ of the poll `polls`.
PollsOnceMore(polls) == polls + 1 <= MAX_RETRIES
PollsAgain(polls) == polls + 1 < MAX_RETRIES

\* The sleep between two polls of onboardUser is over.
DiscWake ==
    /\ pc[DiscTask] = "sleep"
    /\ IF PollsAgain(disc.polls)
       THEN DiscCall("onboard", disc.polls + 1)
       ELSE DiscSettle(projectId, 0)
    /\ UNCHANGED <<rotVars, envVars, nonRot, rotRes, hist, googleCloudProject,
                   accessToken, authAcct, reqProject, reload, blacklisted, obs>>

\* ------------------------------------------------------------------------
\* SpecRot: the rotator driven directly by concurrent callers
\* ------------------------------------------------------------------------
Conversations == {0, 1, 2}      \* 0: no request mapped yet
EmptyHist ==
    [on |-> TRUE, calls |-> 0, overlaps |-> 0, advances |-> 0, resets |-> 0, writes |-> 0,
     from |-> 0, seq |-> [c \in Procs |-> 0], ticks |-> 0,
     owed |-> 0, listed |-> FALSE,
     chats |-> 0, conv |-> 0, seen |-> [k \in Conversations |-> {}]]

\* initialize(paths) with the first n files, or a rotator never initialized;
\* n is drawn from pools, the process' timezone from zones and the content of
\* each credential file from kinds.
InitRotHist(pools, zones, kinds, h) ==
    /\ \E n \in pools :
         /\ credentialFilePaths = [i \in 1..n |-> i]
         /\ isEnabled \in (IF n = 0 THEN {FALSE} ELSE {TRUE})
    /\ currentIndex = 0
    /\ allAccountsExhausted = FALSE
    /\ rotationInProgress = FALSE
    /\ rotationPromise = <<"null">>
    /\ resetTimezoneOffset = -8
    /\ resetHour = 0
    /\ localTimezone \in zones
    /\ now = 55 * 60
    /\ lastResetTime = now
    /\ perf = IdlePerf
    /\ rotWaiters = {}
    /\ \E k \in [Files -> kinds \cup {ValidKind}] :
         /\ \A f \in Files : f > Len(credentialFilePaths) => k[f] = ValidKind
         /\ fileContent = [f \in Files |-> FileOf(f, k[f])]
    /\ cacheFile = NoContent
    /\ pc = [c \in Procs |-> "idle"]
    /\ rotRes = [c \in Procs |-> <<"none">>]
    /\ hist = h
    /\ TokIdle
    /\ SSEIdle
    /\ EngIdle

InitRotWith(pools, zones, kinds) ==
    InitRotHist(pools, zones, kinds, EmptyHist) /\ WatchIdle

\* The process runs in the configured timezone or in UTC.
InitRot == InitRotWith(0..MaxAccounts, {-8, 0}, FileKinds)

RotCall(c) ==
    /\ pc[c] = "idle"
    /\ hist.calls < MaxRotateCalls
    /\ RotateCredentials(c)
    /\ UNCHANGED engVars

RotReturn(c) ==
    /\ pc[c] = "rotret"
    /\ pc' = [pc EXCEPT ![c] = "idle"]
    /\ UNCHANGED <<rotVars, envVars, rotRes, hist, nonRot, engVars>>

Tick ==
    /\ hist.ticks < MaxTicks
    /\ now' = now + 60
    /\ hist' = [hist EXCEPT !.ticks = @ + 1]
    /\ UNCHANGED <<rotVars, localTimezone, fileContent, folderFiles, cacheFile, pc, rotRes,
                   nonRot, engVars>>

NextRot ==
    \/ \E c \in RotCallers : RotCall(c)
    \/ \E c \in RotCallers : RotateFinally(c) /\ UNCHANGED engVars
    \/ \E c \in RotCallers : RotReturn(c)
    \/ PerformValidate /\ UNCHANGED engVars
    \/ PerformRead /\ UNCHANGED engVars
    \/ PerformWrite /\ UNCHANGED engVars
    \/ Tick

SpecRot == InitRot /\ [][NextRot]_vars

\* ------------------------------------------------------------------------
\* Claims about the rotator (SpecRot)
\* ------------------------------------------------------------------------
PoolSize == Len(credentialFilePaths)
Fulfilled(c) == rotRes[c][1] = "fulfilled"
InFlight(c) == pc[c] \in {"rotstart", "rotwait", "rotfinally"}

\* Task c calls rotateCredentials() in this step.
RotPcs == {"rotstart", "rotwait", "rotret"}
CallsRotation(c) == pc[c] \in {"idle", "fetch"} /\ pc'[c] \in RotPcs

\* The promise of the rotation c started settles in this step.
Settles(c) == pc[c] = "rotstart" /\ pc'[c] = "rotfinally"

\* C5: with N >= 2 credentials and no time-based reset firing, a
\* rotateCredentials() call that starts at index i leaves the index at
\* (i+1) mod N and resolves to the path stored at that index; after N
\* successive rotations from index 0 the index is 0 again and the exhaustion
\* flag is set.
C5_RoundRobin ==
    (PoolSize >= 2 /\ hist.resets = 0) =>
        /\ currentIndex = hist.advances % PoolSize
        /\ \A c \in RotCallers :
             (pc[c] = "rotfinally" /\ Fulfilled(c)) =>
                 /\ currentIndex = (hist.from + 1) % PoolSize
                 /\ rotRes[c][2] = credentialFilePaths[currentIndex + 1]
        /\ (hist.advances = PoolSize) =>
               (currentIndex = 0 /\ allAccountsExhausted)

\* A full cycle has just completed: the N-th rotation resolved to the first path.
C5_Witness ==
    /\ PoolSize >= 2
    /\ hist.resets = 0
    /\ hist.advances = PoolSize
    /\ \E c \in RotCallers :
         /\ pc[c] = "rotfinally"
         /\ rotRes[c] = <<"fulfilled", credentialFilePaths[1]>>
    /\ currentIndex = 0
    /\ allAccountsExhausted

\* C6: two rotateCredentials() calls of which the second is issued before the
\* first has resolved start one rotation only (one index advance, at most one
\* write of the canonical cache file), and once both have resolved to a path
\* they hold the same path, the file was written exactly once and, no
\* time-based reset having fired, the index is one past where it was.
C6_ConcurrentRotationsShare ==
    (isRotationEnabled /\ hist.calls = 2 /\ hist.overlaps = 1) =>
        /\ hist.advances = 1
        /\ hist.writes <= 1
        /\ (\A c \in RotCallers : ~InFlight(c) /\ Fulfilled(c)) =>
               /\ \A c, d \in RotCallers : rotRes[c] = rotRes[d]
               /\ hist.writes = 1
               /\ hist.resets = 0 =>
                     currentIndex = (hist.from + 1) % PoolSize

\* Both callers have their result, after the second joined the first's rotation.
C6_Witness ==
    /\ isRotationEnabled
    /\ hist.calls = 2
    /\ hist.overlaps = 1
    /\ hist.resets = 0
    /\ \A c \in RotCallers : pc[c] = "rotret" /\ Fulfilled(c)
    /\ rotRes[1] = rotRes[2]
    /\ hist.writes = 1

CfgKinds ==
    FileKinds \cup
    { [readable |-> TRUE, fields |-> {"refresh_token"}],
      [readable |-> TRUE, fields |-> {"client_id"}],
      [readable |-> TRUE, fields |-> {"client_id", "client_secret"}] }

InitCfg == InitRotWith({2}, {-10}, CfgKinds)

SpecCfg == InitCfg /\ [][NextRot]_vars

\* C18: the validation of the candidate file lets the rotation go on to
\* read it exactly when the file is readable and holds an access token, or a
\* refresh token, or both a client id and a client secret; otherwise the
\* rotation is rejected, every caller waiting for it gets the rejection, and
\* the index stays on the rejected account.
C18_AcceptsExactlyUsable ==
    [][(perf.pc = "validate" /\ perf'.pc # "validate") =>
         LET f == fileContent[perf.path]
             usable == /\ f.readable
                       /\ \/ "access_token" \in f.fields
                          \/ "refresh_token" \in f.fields
                          \/ {"client_id", "client_secret"} \subseteq f.fields
         IN IF usable
            THEN /\ perf'.pc = "read"
                 /\ rotationPromise' = <<"pending">>
            ELSE /\ perf'.pc = "none"
                 /\ rotationPromise' = <<"rejected">>
                 /\ \A c \in rotWaiters : rotRes'[c] = <<"rejected">>
                 /\ currentIndex' = currentIndex
      ]_vars

\* The wall clock of the configured timezone at instant t, and whether a
\* reset is due at a call made now: the hour there is the reset hour and the
\* calendar day there is not the day, there, of the last reset.
ConfiguredTime(t) == t + resetTimezoneOffset * 60
ResetDue ==
    /\ HourOf(ConfiguredTime(now)) = resetHour
    /\ DayOf(ConfiguredTime(now)) # DayOf(ConfiguredTime(lastResetTime))

\* C19: a rotateCredentials() call on an enabled rotator performs the
\* time-based reset exactly when one is due; the reset setting the
\* last-reset time to now, no second call in the same matching hour, or on
\* the same day, resets again.
C19_ResetOncePerDay ==
    [][\A c \in RotCallers :
         (CallsRotation(c) /\ isRotationEnabled) =>
             hist'.resets = hist.resets + (IF ResetDue THEN 1 ELSE 0)
      ]_vars

\* C20: a rotateCredentials() call made when a reset is due leaves the index
\* at 0, and the rotation it starts is to the first path of the pool.
C20_ResetReturnsFirst ==
    [][\A c \in RotCallers :
         (CallsRotation(c) /\ isRotationEnabled /\ ResetDue) =>
             /\ currentIndex' = 0
             /\ pc'[c] = "rotstart" => perf'.path = credentialFilePaths[1]
      ]_vars

\* ------------------------------------------------------------------------
\* SpecTok: the token manager driven directly by concurrent callers
\* ------------------------------------------------------------------------
\* Everything but the token manager, the clock and the callers is as
\* constructed and stays so.
InitTok ==
    /\ credentialFilePaths = <<>>
    /\ isEnabled = FALSE
    /\ currentIndex = 0
    /\ allAccountsExhausted = FALSE
    /\ rotationInProgress = FALSE
    /\ rotationPromise = <<"null">>
    /\ resetTimezoneOffset = -8
    /\ resetHour = 0
    /\ localTimezone = 0
    /\ now = 55 * 60
    /\ lastResetTime = now
    /\ perf = IdlePerf
    /\ rotWaiters = {}
    /\ WatchIdle
    /\ fileContent = [f \in Files |-> FileOf(f, ValidKind)]
    /\ cacheFile = NoContent
    /\ pc = [c \in Procs |-> "idle"]
    /\ rotRes = [c \in Procs |-> <<"none">>]
    /\ hist = EmptyHist
    /\ TokIdle
    /\ SSEIdle
    /\ EngIdle

tokFrame == <<rotVars, localTimezone, fileContent, folderFiles, cacheFile, rotRes, sseVars,
              outVars, engVars>>

TokCall(c) ==
    /\ pc[c] = "idle"
    /\ handleCalls < MaxHandleCalls
    /\ GetAccessToken(c)
    /\ UNCHANGED <<tokFrame, now, hist>>

TokReturn(c) ==
    /\ pc[c] = "tokret"
    /\ pc' = [pc EXCEPT ![c] = "idle"]
    /\ tokRes' = [tokRes EXCEPT ![c] = NoTokRes]
    /\ UNCHANGED <<tokFrame, now, hist, cachedToken, tokenExpiration,
                   refreshPromise, refreshNow, tokWaiters, handleCalls,
                   handlePending>>

TokRefreshSucceeds ==
    /\ RefreshSucceeds
    /\ UNCHANGED <<tokFrame, now, hist>>

TokRefreshFails ==
    /\ RefreshFails
    /\ UNCHANGED <<tokFrame, now, hist>>

TokClearCache ==
    /\ cachedToken # 0
    /\ ClearCache
    /\ UNCHANGED <<tokFrame, now, hist, pc>>

TokTick ==
    /\ hist.ticks < MaxTokTicks
    /\ now' = now + 1
    /\ hist' = [hist EXCEPT !.ticks = @ + 1]
    /\ UNCHANGED <<tokFrame, tokVars, pc>>

NextTok ==
    \/ \E c \in TokCallers : TokCall(c)
    \/ \E c \in TokCallers : TokReturn(c)
    \/ TokRefreshSucceeds
    \/ TokRefreshFails
    \/ TokClearCache
    \/ TokTick

SpecTok == InitTok /\ [][NextTok]_vars

\* ------------------------------------------------------------------------
\* Claims about the token manager (SpecTok)
\* ------------------------------------------------------------------------
Handed(c) == pc[c] = "tokret" /\ tokRes[c].kind = "token"

\* The handle call whose answer a caller that did not hit the cache gets.
RefreshOf(c) ==
    IF tokRes[c].via = "start" THEN tokRes[c].entry + 1 ELSE tokRes[c].entry

C8_SingleRefresh ==
    /\ handlePending <= 1
    /\ (handlePending = 1) <=> (refreshPromise = "pending")
    /\ \A c \in TokCallers : pc[c] = "tokwait" => handleCalls = RefreshOf(c)
    /\ \A c, d \in TokCallers :
         ( /\ pc[c] = "tokret" /\ pc[d] = "tokret"
           /\ tokRes[c].via # "cache" /\ tokRes[d].via # "cache"
           /\ RefreshOf(c) = RefreshOf(d) ) =>
             /\ tokRes[c].kind = tokRes[d].kind
             /\ tokRes[c].token = tokRes[d].token

\* Three callers were served by one handle call.
C8_Witness ==
    /\ handleCalls = 1
    /\ \A c \in TokCallers : Handed(c) /\ tokRes[c].token = 1
    /\ \E c \in TokCallers : tokRes[c].via = "join"

\* ------------------------------------------------------------------------
\* SpecSSE: parseSSEStream fed one upstream body in arbitrary chunks
\* ------------------------------------------------------------------------
\* The lines upstream bodies are made of.
LineKinds ==
    { DataPrefix \o <<"{", "}">>,       \* data: {}
      DataPrefix \o <<"{">>,            \* data: {
      DataPrefix \o <<"}">>,            \* data: }
      <<>>,                             \* blank line
      <<CR>>,                           \* blank line of a CRLF body
      <<"d", "a", "t", "a", ":", "1">>  \* no space after the colon
    }

RECURSIVE JoinLines(_)
JoinLines(ls) ==
    IF ls = <<>> THEN <<>> ELSE Head(ls) \o <<LF>> \o JoinLines(Tail(ls))

\* Bodies of up to MaxLines lines, the last one with or without its line feed.
Bodies ==
    UNION { { JoinLines(ls) : ls \in [1..k -> LineKinds] } : k \in 0..MaxLines }
Texts == Bodies \cup { SubSeq(b, 1, Len(b) - 1) : b \in Bodies \ {<<>>} }

sseFrame == <<rotVars, envVars, tokVars, outVars, engVars, pc, rotRes, hist>>

InitSSE ==
    /\ credentialFilePaths = <<>>
    /\ isEnabled = FALSE
    /\ currentIndex = 0
    /\ allAccountsExhausted = FALSE
    /\ rotationInProgress = FALSE
    /\ rotationPromise = <<"null">>
    /\ resetTimezoneOffset = -8
    /\ resetHour = 0
    /\ localTimezone = 0
    /\ now = 55 * 60
    /\ lastResetTime = now
    /\ perf = IdlePerf
    /\ rotWaiters = {}
    /\ WatchIdle
    /\ fileContent = [f \in Files |-> FileOf(f, ValidKind)]
    /\ cacheFile = NoContent
    /\ pc = [c \in Procs |-> "idle"]
    /\ rotRes = [c \in Procs |-> <<"none">>]
    /\ hist = EmptyHist
    /\ TokIdle
    /\ EngIdle
    /\ sseText \in Texts
    /\ sseInput = sseText
    /\ buffer = <<>>
    /\ objectBuffer = <<>>
    /\ sseOut = <<>>
    /\ ssePc = "reading"
    /\ sseCut = NoCut

SSEReadChunk ==
    /\ \E n \in 1..Len(sseInput) : SSERead(n)
    /\ UNCHANGED sseFrame

SSEReadEnd ==
    /\ SSEEnd
    /\ UNCHANGED sseFrame

NextSSE == SSEReadChunk \/ SSEReadEnd

SpecSSE == InitSSE /\ [][NextSSE]_vars

\* What parseSSEStream yields when the whole body arrives as one chunk.
WholeBody(text) ==
    ReadDone(IF text = <<>> THEN SSEStart ELSE ReadValue(SSEStart, text)).out

\* C10: however the body is cut into chunks, what parseSSEStream has yielded
\* when the stream ends is what it yields for the body delivered as one chunk.
C10_ChunkingInvariant ==
    ssePc = "done" => sseOut = WholeBody(sseText)

\* A body cut inside the "data: " prefix and inside its payload still
\* yielded its object.
C10_Witness ==
    /\ ssePc = "done"
    /\ sseCut.prefix
    /\ sseCut.payload
    /\ sseText = DataPrefix \o <<"{", "}", LF, LF>>
    /\ sseOut = << <<"{", "}">> >>

\* ------------------------------------------------------------------------
\* SpecEvt: parseSSEStream fed one event whose text is two JSON objects
\* ------------------------------------------------------------------------
\* JSON objects, written as the upstream writes them.
Objects ==
    { <<"{", "}">>,                                       \* {}
      <<"{", Quote, Quote, Colon, "1", "}">>,             \* {"":1}
      <<"{", Quote, "1", Quote, Colon, "1", "}">>,        \* {"1":1}
      <<"{", Quote, Quote, Colon, "{", "}", "}">>,        \* {"":{}}
      <<"{", Quote, "}", "{", Quote, Colon, "1", "}">>,   \* {"}{":1}
      <<"{", Quote, Quote, Colon, Quote, "{", Quote, "}">> \* {"":"{"}
    }

\* The bodies that carry objects a and b as one event: on one data line or
\* on two, with LF or CRLF line ends, closed by a blank line or by the end
\* of the stream.
EventBodies(a, b) ==
    { DataPrefix \o a \o b \o <<LF, LF>>,
      DataPrefix \o a \o b \o <<LF>>,
      DataPrefix \o a \o <<LF>> \o DataPrefix \o b \o <<LF, LF>>,
      DataPrefix \o a \o <<LF>> \o DataPrefix \o b \o <<LF>>,
      DataPrefix \o a \o <<CR, LF>> \o DataPrefix \o b \o <<CR, LF, CR, LF>>,
      DataPrefix \o a \o <<CR, LF>> \o DataPrefix \o b \o <<CR, LF>> }

InitEvt ==
    /\ credentialFilePaths = <<>>
    /\ isEnabled = FALSE
    /\ currentIndex = 0
    /\ allAccountsExhausted = FALSE
    /\ rotationInProgress = FALSE
    /\ rotationPromise = <<"null">>
    /\ resetTimezoneOffset = -8
    /\ resetHour = 0
    /\ localTimezone = 0
    /\ now = 55 * 60
    /\ lastResetTime = now
    /\ perf = IdlePerf
    /\ rotWaiters = {}
    /\ WatchIdle
    /\ fileContent = [f \in Files |-> FileOf(f, ValidKind)]
    /\ cacheFile = NoContent
    /\ pc = [c \in Procs |-> "idle"]
    /\ rotRes = [c \in Procs |-> <<"none">>]
    /\ hist = EmptyHist
    /\ TokIdle
    /\ EngIdle
    /\ \E a \in Objects, b \in Objects : sseText \in EventBodies(a, b)
    /\ sseInput = sseText
    /\ buffer = <<>>
    /\ objectBuffer = <<>>
    /\ sseOut = <<>>
    /\ ssePc = "reading"
    /\ sseCut = NoCut

SpecEvt == InitEvt /\ [][NextSSE]_vars

\* The brace depth of obj, tracked character by character, returns to zero
\* at its last character and not before.
BraceBalanced(obj) == SplitIndex(obj, 1, 0) = Len(obj)

InitClientWith(n, enabled, project) ==
    /\ credentialFilePaths = [i \in 1..n |-> i]
    /\ isEnabled = enabled
    /\ currentIndex = 0
    /\ allAccountsExhausted = FALSE
    /\ rotationInProgress = FALSE
    /\ rotationPromise = <<"null">>
    /\ resetTimezoneOffset = -8
    /\ resetHour = 0
    /\ localTimezone = 0
    /\ now = 55 * 60
    /\ lastResetTime = now
    /\ perf = IdlePerf
    /\ rotWaiters = {}
    /\ WatchIdle
    /\ fileContent = [f \in Files |-> FileOf(f, ValidKind)]
    /\ cacheFile = FileOf(1, ValidKind)
    /\ rotRes = [c \in Procs |-> <<"none">>]
    /\ hist = [EmptyHist EXCEPT !.on = FALSE]
    /\ TokIdle
    /\ SSEIdle
    /\ googleCloudProject = project
    /\ projectId = 0
    /\ authAcct = 1
    /\ result = [c \in EngCallers |-> NoResult]
    /\ projWaiters = {}
    /\ projRes = [c \in Procs |-> 0]
    /\ reload = [c \in EngTasks |-> NoReload]
    /\ reqProject = 0
    /\ blacklisted = <<>>
    /\ obs = NoObs
    /\ accessToken = 1
    /\ firstChunk = TRUE
    /\ lastThoughtSignature = 0
    /\ stream = [c \in EngCallers |-> NoStream]
    /\ completion = [c \in EngCallers |-> NoCompletion]
    /\ reqModel = 0
    /\ self = <<>>
    /\ reqThoughtSignature = 0
    /\ IF project # 0
       THEN /\ projectIdPromise = "null"
            /\ disc = NoDisc
            /\ stack = [c \in EngTasks |-> <<>>]
            /\ pc = [c \in Procs |-> "idle"]
       ELSE /\ projectIdPromise = "pending"
            /\ disc = [stage |-> "load1", polls |-> 0, acct |-> 1]
            /\ stack = [c \in EngTasks |->
                          IF c = DiscTask
                          THEN << [retryCount |-> 0, status |-> 0, text |-> 0,
                                   how |-> "none"] >>
                          ELSE <<>>]
            /\ pc = [c \in Procs |-> IF c = DiscTask THEN "fetch" ELSE "idle"]

\* initialize(paths) enables the rotator exactly when paths is not empty.
InitClient(n, project) == InitClientWith(n, n > 0, project)

InitEng == \E n \in 0..MaxAccounts : InitClient(n, StaticProject)

NextEng ==
    \/ \E c \in Solo : StreamCall(c)
    \/ \E c \in Solo : GetToken(c)
    \/ \E c \in Solo, body \in OkBodies : ResponseOk(c, body)
    \/ \E c \in Solo : StreamFrame(c)
    \/ \E c \in Solo : StreamEnd(c)
    \/ \E c \in Solo : Retry401(c)
    \/ \E c \in Solo, e \in {TimedOut, NetworkError} : FetchThrows(c, e)
    \/ \E c \in Solo, s \in RotStatuses : ResponseRotate(c, s)
    \/ \E c \in Solo, s \in ErrStatuses : ResponseFail(c, s)
    \/ PerformValidate /\ UNCHANGED engVars
    \/ PerformRead /\ UNCHANGED engVars
    \/ PerformWrite /\ UNCHANGED engVars
    \/ \E c \in Solo : RotateFinally(c) /\ UNCHANGED engVars
    \/ \E c \in Solo : AfterRotate(c)
    \/ \E c \in Solo : ReloadRead(c)
    \/ \E c \in Solo : ReloadRefresh(c)
    \/ \E c \in Solo : ReloadWrite(c)
    \/ \E c \in Solo : AfterDiscover(c)

SpecEng == InitEng /\ [][NextEng]_vars

\* ------------------------------------------------------------------------
\* Claims about streamContent() under rotation (SpecEng)
\* ------------------------------------------------------------------------
\* C1: with rotation enabled over N >= 2 accounts and every answer to the
\* stream requests so far being 429 or 403, the call has issued at most N
\* requests.
C1_AtMostNRequests ==
    (isRotationEnabled /\ getAccountCount >= 2 /\ obs.only = {429, 403}) =>
        obs.n <= getAccountCount

\* C2: with rotation enabled, every answer being 429, 403 or 504 and no
\* rotation or reload failing, the error that ends the call is the
\* synthesized "All N OAuth accounts have been exhausted" GeminiApiError.
C2_ExhaustedErrorReachesCaller ==
    \A c \in EngCallers :
        ( /\ pc[c] = "done"
          /\ isRotationEnabled
          /\ obs.n > 0
          /\ obs.only # {}
          /\ obs.clean ) =>
            /\ result[c].kind = "GeminiApiError"
            /\ result[c].msg = "exhausted"

\* C3: a GeminiApiError that ends the call after an upstream answer carries
\* the status and the text of the last answer the call received.
C3_LastResponseCarried ==
    \A c \in EngCallers :
        ( /\ pc[c] = "done"
          /\ result[c].kind = "GeminiApiError"
          /\ result[c].msg # "timedout" ) =>
            /\ result[c].statusCode = obs.last
            /\ result[c].responseText = obs.n

\* ---- What a 200 response holds, read off its frames.
RECURSIVE Flatten(_)
Flatten(body) ==
    IF body = <<>> THEN <<>> ELSE Head(body).parts \o Flatten(Tail(body))

\* The text of its parts that are plain text, in order.
RECURSIVE TextFrames(_)
TextFrames(parts) ==
    IF parts = <<>> THEN <<>>
    ELSE (IF Head(parts).kind = "text" /\ ~Head(parts).thought
          THEN Head(parts).text ELSE <<>>) \o TextFrames(Tail(parts))

\* Its last usage frame, as getCompletion() reports usage.
RECURSIVE UsageFrame(_)
UsageFrame(body) ==
    IF body = <<>> THEN NoCompletion.usage
    ELSE LET u == body[Len(body)].usage
         IN IF u.has
            THEN [has |-> TRUE, inputTokens |-> u.promptTokenCount,
                  outputTokens |-> u.candidatesTokenCount + u.thoughtsTokenCount]
            ELSE UsageFrame(SubSeq(body, 1, Len(body) - 1))

\* The thought signatures its parts carry, in order.
Signatures(body) ==
    LET sigs == [i \in 1..Len(Flatten(body)) |-> Flatten(body)[i].sig]
    IN SelectSeq(sigs, LAMBDA x : x # 0)

HasFunctionCall(body) ==
    \E i \in 1..Len(Flatten(body)) : Flatten(body)[i].kind = "functionCall"

\* C12: with rotation enabled over N accounts, when the first k attempts of
\* a getCompletion call (0 < k < N) were answered 429 and the next one 200,
\* the call succeeds, the rotator has advanced k times, and what is returned
\* is built from the 200 response alone: its text parts joined, and the
\* counts of its usage frame.
C12_RotateThenSucceed ==
    [][\A c \in EngCallers :
         ( /\ pc[c] = "stream"
           /\ pc'[c] = "done"
           /\ isRotationEnabled
           /\ Len(stack[c]) - 1 > 0
           /\ Len(stack[c]) - 1 < getAccountCount
           /\ \A i \in 1..(Len(stack[c]) - 1) : stack[c][i].status = 429 ) =>
             /\ result'[c] = Completed
             /\ currentIndex' = Len(stack[c]) - 1
             /\ completion'[c].content = TextFrames(Flatten(stream[c].body))
             /\ completion'[c].usage = UsageFrame(stream[c].body)
      ]_vars

\* Three accounts, two answers 429, then 200 with the text "H" and a usage
\* frame of 10 prompt and 5 candidate tokens.
C12_Witness ==
    \E c \in EngCallers :
        /\ pc[c] = "done"
        /\ result[c] = Completed
        /\ getAccountCount = 3
        /\ obs.n = 3
        /\ currentIndex = 2
        /\ Len(stream[c].body) = 2
        /\ completion[c].content = <<"H">>
        /\ completion[c].usage = [has |-> TRUE, inputTokens |-> 10,
                                  outputTokens |-> 5]

\* C13: a 401 answer to the attempt with retry count 0 drops the handle's
\* access token and issues one retry, with retry count 1, and the rotator is
\* not touched; a 401 answer to a later attempt ends the call with a
\* GeminiApiError, and neither the token nor the rotator is touched.  Only
\* the first attempt of a call is ever retried for a 401.
C13_Retry401Once ==
    [][\A c \in EngCallers :
         /\ \A i \in 1..Len(stack[c]) : stack[c][i].how = "401" => i = 1
         /\ (pc[c] = "fetch" /\ obs'.n = obs.n + 1 /\ obs'.last = 401) =>
              IF Top(c).retryCount = 0
              THEN /\ accessToken' = 0
                   /\ Len(stack'[c]) = Len(stack[c]) + 1
                   /\ stack'[c][Len(stack'[c])].retryCount = 1
                   /\ pc'[c] = "token"
                   /\ UNCHANGED <<rotVars, cacheFile, blacklisted>>
              ELSE /\ pc'[c] = "done"
                   /\ result'[c].kind = "GeminiApiError"
                   /\ UNCHANGED <<rotVars, cacheFile, blacklisted, accessToken>>
      ]_vars

\* A call answered 401 twice: it was retried once, with a token fetched
\* anew, and ended with the second answer.
C13_Witness ==
    \E c \in EngCallers :
        /\ pc[c] = "done"
        /\ obs.n = 2
        /\ result[c] = GeminiApiError("failed", 401, 2)
        /\ accessToken = authAcct
        /\ currentIndex = 0

\* C14: the closing chunk of a stream, its last chunk and the only one with
\* a finish reason, says "tool_calls" exactly when the stream had a
\* functionCall part and "stop" otherwise; and when a part of the stream
\* carried a thought signature, lastThoughtSignature is the one carried last.
C14_FinishReasonAndSignature ==
    \A c \in EngCallers :
        (pc[c] = "done" /\ result[c] = Completed) =>
            LET chunks == stream[c].chunks
                sigs == Signatures(stream[c].body)
            IN /\ chunks # <<>>
               /\ chunks[Len(chunks)].finish_reason =
                      (IF HasFunctionCall(stream[c].body)
                       THEN "tool_calls" ELSE "stop")
               /\ \A i \in 1..(Len(chunks) - 1) : chunks[i].finish_reason = "null"
               /\ sigs # <<>> => lastThoughtSignature = sigs[Len(sigs)]

\* A stream with a functionCall part carrying signature 2, then plain text
\* without one: closed with "tool_calls", signature 2 kept.
C14_Witness ==
    \E c \in EngCallers :
        /\ pc[c] = "done"
        /\ result[c] = Completed
        /\ Len(stream[c].body) = 2
        /\ HasFunctionCall(<<stream[c].body[1]>>)
        /\ Signatures(stream[c].body) = <<2>>
        /\ stream[c].chunks[Len(stream[c].chunks)].finish_reason = "tool_calls"
        /\ lastThoughtSignature = 2

C21_TimeoutRotates ==
    [][\A c \in EngCallers :
         FetchThrows(c, TimedOut) =>
             IF Top(c).retryCount < getAccountCount /\ isRotationEnabled
             THEN CallsRotation(c)
             ELSE pc'[c] = "done" /\ result'[c] = TimedOut
      ]_vars

\* The step of c is a rotation of its call failing: rotateCredentials() gave
\* null or rejected, or reloadCredentials() could not read the cache file.
RotationFails(c) ==
    \/ pc[c] = "rotret" /\ rotRes[c][1] # "fulfilled" /\ pc'[c] # "rotret"
    \/ pc[c] = "reload" /\ pc'[c] \notin {"reload", "refresh"}

\* C27: when a rotation of a call fails, the call ends there, with a
\* GeminiApiError carrying the status and the text of the response that
\* started that rotation.
C27_FailedRotationEndsCall ==
    [][\A c \in EngCallers :
         RotationFails(c) =>
            /\ pc'[c] = "done"
            /\ result'[c].kind = "GeminiApiError"
            /\ result'[c].statusCode = Top(c).status
            /\ result'[c].responseText = Top(c).text]_vars

\* ------------------------------------------------------------------------
\* SpecDisc: the client without a static project: the project discovery the
\* constructor started runs beside a caller of streamContent().  The
\* upstream answers 200, 429 or 500.
\* ------------------------------------------------------------------------
MaxPool == 2            \* largest credential pool explored in SpecDisc

\* The 200 response to a stream request in SpecDisc: one frame of text.
OneTextBody ==
    << [parts |-> <<TextPart(<<"H">>, FALSE, 0)>>, usage |-> NoUsageMetadata] >>

InitDisc == \E n \in 0..MaxPool : InitClient(n, 0)

NextDisc ==
    \/ \E c \in Solo : StreamCall(c)
    \/ \E c \in Solo : GetToken(c)
    \/ \E c \in Solo : ResponseOk(c, OneTextBody)
    \/ \E c \in Solo : StreamFrame(c)
    \/ \E c \in Solo : StreamEnd(c)
    \/ \E c \in SoloTasks : ResponseRotate(c, 429)
    \/ \E c \in SoloTasks : ResponseFail(c, 500)
    \/ PerformValidate /\ UNCHANGED engVars
    \/ PerformRead /\ UNCHANGED engVars
    \/ PerformWrite /\ UNCHANGED engVars
    \/ \E c \in SoloTasks : RotateFinally(c) /\ UNCHANGED engVars
    \/ \E c \in SoloTasks : AfterRotate(c)
    \/ \E c \in SoloTasks : ReloadRead(c)
    \/ \E c \in SoloTasks : ReloadRefresh(c)
    \/ \E c \in SoloTasks : ReloadWrite(c)
    \/ \E c \in SoloTasks : AfterDiscover(c)
    \/ \E body \in DiscBodies : DiscResponse(body)
    \/ DiscWake

SpecDisc == InitDisc /\ [][NextDisc]_vars

\* ------------------------------------------------------------------------
\* Claims about streamContent() beside project discovery (SpecDisc)
\* ------------------------------------------------------------------------
\* C4: every streamContent call ends: each retry runs with a retry count one
\* above that of the attempt it retries, no attempt whose retry count has
\* reached N is retried, and a call that has not ended is never left with
\* no step to take.
C4_EveryCallEnds ==
    /\ \A c \in EngCallers : \A i \in 1..Len(stack[c]) :
          /\ stack[c][i].retryCount = i - 1
          /\ i < Len(stack[c]) => stack[c][i].retryCount < getAccountCount
    /\ (\E c \in EngCallers : stack[c] # <<>>) => ENABLED NextDisc

\* C9: after a rotation away from an account, the discoverProjectId() call
\* that follows the reload (no static project) does not return the project
\* identity of that account.
C9_NoStaleProject ==
    \A c \in EngCallers :
        ( /\ pc[c] = "projret"
          /\ googleCloudProject = 0
          /\ reload[c].from # reload[c].ref ) =>
            \/ projRes[c] = 0
            \/ projRes[c] # ProjectOf(reload[c].from)

\* The discovery block settles in this step, and what it hands the tasks
\* that wait for it.
DiscSettles == projectIdPromise = "pending" /\ projectIdPromise' = "null"
DiscGives(v) == \A t \in projWaiters : pc'[t] = "projret" /\ projRes'[t] = v

C28_DiscoveryResolves ==
    projectIdPromise = "pending" => pc[DiscTask] # "projwait"

\* ------------------------------------------------------------------------
\* SpecOff: the client beside a rotator that does not rotate: never
\* initialized, initialized with one path, or switched off by initialize([])
\* after paths were given.  A second caller calls rotateCredentials()
\* directly while the clock passes into the reset hour.
\* ------------------------------------------------------------------------
OffCaller == CHOOSE c \in RotCallers : c \notin Solo

InitOff ==
    \E n \in 0..MaxPool, enabled \in BOOLEAN :
        /\ enabled => n = 1
        /\ InitClientWith(n, enabled, StaticProject)

NextOff ==
    \/ RotCall(OffCaller)
    \/ RotReturn(OffCaller)
    \/ Tick
    \/ \E c \in Solo : StreamCall(c)
    \/ \E c \in Solo : GetToken(c)
    \/ \E c \in Solo : ResponseOk(c, OneTextBody)
    \/ \E c \in Solo : StreamFrame(c)
    \/ \E c \in Solo : StreamEnd(c)
    \/ \E c \in Solo : Retry401(c)
    \/ \E c \in Solo, e \in {TimedOut, NetworkError} : FetchThrows(c, e)
    \/ \E c \in Solo, s \in ErrStatuses : ResponseFail(c, s)

SpecOff == InitOff /\ [][NextOff]_vars

\* C16: with fewer than two credential paths, or with the rotator not
\* enabled, a rotateCredentials() call returns null at once and leaves the
\* index, the exhaustion flag, the last-reset time and the canonical cache
\* file as they were; and a 429 answer ends the stream call with a
\* GeminiApiError of status 429, no rotation being called and nothing of the
\* rotator changed.
C16_DisabledRotationIsNoOp ==
    [][(~isEnabled \/ Len(credentialFilePaths) < 2) =>
         /\ \A c \in Procs :
              CallsRotation(c) =>
                  /\ pc'[c] = "rotret"
                  /\ rotRes'[c] = <<"null">>
                  /\ UNCHANGED <<currentIndex, allAccountsExhausted,
                                 lastResetTime, cacheFile, rotVars>>
         /\ \A c \in EngCallers :
              (pc[c] = "fetch" /\ obs'.n = obs.n + 1 /\ obs'.last = 429) =>
                  /\ pc'[c] = "done"
                  /\ result'[c] = GeminiApiError("failed", 429, obs'.n)
                  /\ \A d \in Procs : ~CallsRotation(d)
                  /\ UNCHANGED <<rotVars, cacheFile, rotRes, blacklisted>>
      ]_vars

\* One path and the rotator enabled: in the reset hour a direct call has
\* returned null, and the stream call has ended with the 429 it got first.
C16_Witness ==
    /\ isEnabled
    /\ Len(credentialFilePaths) = 1
    /\ hist.ticks = 1
    /\ pc[OffCaller] = "rotret"
    /\ rotRes[OffCaller] = <<"null">>
    /\ \E c \in EngCallers :
         /\ pc[c] = "done"
         /\ obs.n = 1
         /\ result[c] = GeminiApiError("failed", 429, 1)
    /\ currentIndex = 0
    /\ lastResetTime = 55 * 60

\* ------------------------------------------------------------------------
\* SpecServe: one client, with a static project and no rotation, serves
\* MaxStreams streams one after the other.
\* ------------------------------------------------------------------------
InitServe == InitClient(0, StaticProject)

NextServe ==
    \/ \E c \in Solo : StreamCall(c)
    \/ \E c \in Solo : GetToken(c)
    \/ \E c \in Solo, body \in OkBodies : ResponseOk(c, body)
    \/ \E c \in Solo : StreamFrame(c)
    \/ \E c \in Solo : StreamEnd(c)
    \/ \E c \in Solo : StreamReturn(c)

SpecServe == InitServe /\ [][NextServe]_vars

\* C23: of the chunks a stream has yielded before its closing chunk, the
\* first one carries the role marker and no other does; for every stream
\* the client serves.
C23_RoleMarkerOnFirstDelta ==
    \A c \in EngCallers :
        LET chunks == stream[c].chunks
        IN \A i \in 1..Len(chunks) :
               chunks[i].finish_reason = "null" =>
                   (chunks[i].delta.role <=> i = 1)

\* ------------------------------------------------------------------------
\* SpecFb: streamContent() with the model fallback around it, and response
\* bodies that may fail while they are streamed.
\* ------------------------------------------------------------------------
\* The 200 responses of SpecFb: up to MaxFrames frames of the same text.
FbBodies == {b \in OkBodies : \A i \in 1..Len(b) : b[i] = OneTextBody[1]}

NextFb ==
    \/ \E c \in Solo : StreamCall(c)
    \/ \E c \in Solo : GetToken(c)
    \/ \E c \in Solo, body \in FbBodies : ResponseOk(c, body)
    \/ \E c \in Solo : StreamFrame(c)
    \/ \E c \in Solo : StreamEnd(c)
    \/ \E c \in Solo : StreamFails(c)
    \/ \E c \in Solo : Fallback(c)
    \/ \E c \in Solo : Retry401(c)
    \/ \E c \in Solo, e \in {TimedOut, NetworkError} : FetchThrows(c, e)
    \/ \E c \in Solo, s \in RotStatuses : ResponseRotate(c, s)
    \/ \E c \in Solo, s \in ErrStatuses : ResponseFail(c, s)
    \/ PerformValidate /\ UNCHANGED engVars
    \/ PerformRead /\ UNCHANGED engVars
    \/ PerformWrite /\ UNCHANGED engVars
    \/ \E c \in Solo : RotateFinally(c) /\ UNCHANGED engVars
    \/ \E c \in Solo : AfterRotate(c)
    \/ \E c \in Solo : ReloadRead(c)
    \/ \E c \in Solo : ReloadRefresh(c)
    \/ \E c \in Solo : ReloadWrite(c)
    \/ \E c \in Solo : AfterDiscover(c)

SpecFb == InitEng /\ [][NextFb]_vars

\* The accounts the attempts of `frames` went to: every attempt but the
\* retry of a 401 follows a rotation.
AccountsAttempted(frames) ==
    Cardinality({i \in 1..Len(frames) : i = 1 \/ frames[i - 1].how # "401"})

\* C22: with rotation enabled, and no fetch, rotation or reload having
\* failed, an error that leaves streamContentInternal is handed to the model
\* fallback only when the attempts of the call went to every account of
\* the pool.
C22_FallbackAfterAllAccounts ==
    [][\A c \in EngCallers :
         (/\ isRotationEnabled
          /\ obs'.clean
          /\ pc[c] # "done"
          /\ pc'[c] = "done"
          /\ FallsBack(result'[c], reqModel')) =>
              AccountsAttempted(stack[c]) >= getAccountCount
      ]_vars

\* C24: the chunks a caller was yielded only grow at their end; once there
\* is one, the call streams on or ends and no request is issued for it
\* again; and the chunks hold at most one role marker and one closing chunk.
C24_NoRetryAfterFirstChunk ==
    [][\A c \in EngCallers :
         LET chunks == stream[c].chunks
         IN /\ Len(chunks) <= Len(stream'[c].chunks)
            /\ SubSeq(stream'[c].chunks, 1, Len(chunks)) = chunks
            /\ chunks # <<>> => pc'[c] \in {"stream", "done"}
            /\ Cardinality({i \in 1..Len(chunks) : chunks[i].delta.role}) <= 1
            /\ Cardinality({i \in 1..Len(chunks) :
                               chunks[i].finish_reason # "null"}) <= 1
      ]_vars

\* ------------------------------------------------------------------------
\* SpecPair: one client with a static project serving two streamContent()
\* calls at once over a pool of at least two accounts; the upstream answers
\* 200, 429 or 500.  The calls share the rotator, the cache file and the
\* credential handle.
\* ------------------------------------------------------------------------
InitPair == \E n \in 2..MaxAccounts : InitClient(n, StaticProject)

NextPair ==
    \/ \E c \in EngCallers : StreamCall(c)
    \/ \E c \in EngCallers : GetToken(c)
    \/ \E c \in EngCallers : ResponseOk(c, OneTextBody)
    \/ \E c \in EngCallers : StreamFrame(c)
    \/ \E c \in EngCallers : StreamEnd(c)
    \/ \E c \in EngCallers : ResponseRotate(c, 429)
    \/ \E c \in EngCallers : ResponseFail(c, 500)
    \/ PerformValidate /\ UNCHANGED engVars
    \/ PerformRead /\ UNCHANGED engVars
    \/ PerformWrite /\ UNCHANGED engVars
    \/ \E c \in EngCallers : RotateFinally(c) /\ UNCHANGED engVars
    \/ \E c \in EngCallers : AfterRotate(c)
    \/ \E c \in EngCallers : ReloadRead(c)
    \/ \E c \in EngCallers : ReloadRefresh(c)
    \/ \E c \in EngCallers : ReloadWrite(c)
    \/ \E c \in EngCallers : AfterDiscover(c)

SpecPair == InitPair /\ [][NextPair]_vars

\* The account before p in the pool, the last one before the first.
PreviousPath(p) ==
    LET i == CHOOSE j \in 1..getAccountCount : credentialFilePaths[j] = p
    IN credentialFilePaths[((i + getAccountCount - 2) % getAccountCount) + 1]

\* The attempt c is making retries one that rotated.
RetriesRotation(c) ==
    /\ Len(stack[c]) > 1
    /\ stack[c][Len(stack[c]) - 1].how = "rot"

\* C26: the bearer token a retry obtains after its call's rotation is not
\* the token of the account that rotation left, unless the rotator has come
\* back to that account since.
C26_RetryDropsPreviousToken ==
    [][\A c \in EngCallers :
         (GetToken(c) /\ pc'[c] = "fetch" /\ RetriesRotation(c))
         => LET from == PreviousPath(rotRes[c][2])
            IN accessToken' = from => getCurrentAccountPath = from]_vars

\* No rotateCredentials() call is unresolved or about to be acted on, and no
\* reloadCredentials() is running.
Quiet ==
    /\ ~rotationInProgress
    /\ perf = IdlePerf
    /\ \A c \in EngCallers :
          pc[c] \notin RotPcs \cup {"rotfinally", "reload", "refresh", "reloadwrite"}

\* C29: whenever no rotation and no reload is in flight (and no rotation,
\* reload or request of the run has failed), the cache file and the handle
\* hold the credentials of the account at the rotator's current index, and
\* a path rotateCredentials() returned, if any, is getCurrentAccountPath().
C29_CacheHandleAndIndexAgree ==
    (Quiet /\ obs.clean) =>
        /\ cacheFile.acct = getCurrentAccountPath
        /\ authAcct = getCurrentAccountPath
        /\ (\E c \in EngCallers : rotRes[c][1] = "fulfilled")
           => \E c \in EngCallers :
                 rotRes[c] = <<"fulfilled", getCurrentAccountPath>>

\* ------------------------------------------------------------------------
\* clearCache() beside a pending refresh (SpecTok)
\* ------------------------------------------------------------------------
\* The refresh in flight was started while the cache held a token, and the
\* cache has been cleared since.
ClearedSinceStart ==
    /\ refreshPromise = "pending"
    /\ cachedToken = 0
    /\ \E c \in tokWaiters : tokRes[c].via = "start" /\ tokRes[c].had # 0

\* C30: a refresh that was started before a clearCache() and settles after
\* it leaves no token in the cache and hands none to the callers suspended
\* on it, the joiners included.
C30_ClearCacheOutlivesRefresh ==
    [][(ClearedSinceStart /\ refreshPromise' = "null") =>
          /\ cachedToken' = 0
          /\ \A c \in tokWaiters : tokRes'[c].kind # "token"]_vars

\* ------------------------------------------------------------------------
\* SpecWatch: the rotator by itself, initialized by path list or by folder
\* while files come and go in the folder, callers rotate and the clock runs
\* ------------------------------------------------------------------------
\* The path lists initialize() is given.
PathLists == {Listing(S) : S \in {{}, {CHOOSE f \in Files : TRUE}, Files}}

\* The file that is created in the folder and deleted from it; the others
\* stay in the folder, or the folder holds no other file.
FolderNames == {f \in Files : f = MaxAccounts}

\* The rotator as constructed, nothing initialized; the rotator's history
\* of calls is not kept.
InitWatch ==
    /\ InitRotHist({0}, {-8}, {ValidKind}, [EmptyHist EXCEPT !.on = FALSE])
    /\ folderFiles \in {Files \ FolderNames, FolderNames}
    /\ refreshDebounceTimer = 0
    /\ folderReads = 0
    /\ folderWatcher = FALSE
    /\ folderInit = <<"none">>

NextWatch ==
    \/ \E paths \in PathLists : Initialize(paths)
    \/ InitializeWithFolder
    \/ FolderListed
    \/ FolderCopied
    \/ \E f \in FolderNames : FolderChange(f)
    \/ TimerElapses
    \/ FolderReload
    \/ \E c \in Solo : RotCall(c)
    \/ \E c \in Solo : RotateFinally(c) /\ UNCHANGED engVars
    \/ \E c \in Solo : RotReturn(c)
    \/ PerformValidate /\ UNCHANGED engVars
    \/ PerformRead /\ UNCHANGED engVars
    \/ PerformWrite /\ UNCHANGED engVars
    \/ Tick

SpecWatch == InitWatch /\ [][NextWatch]_vars

\* The timer callback of handleFolderChange() ends in this step, having
\* listed the folder.
Reloads == folderReads' = folderReads - 1 /\ hist'.listed

\* A folder reload that finds the files of the pool leaves the pool, the
\* index and the exhaustion flag as they are; one that finds another set
\* makes the listing the pool, the index 0 and the flag false.
ReloadOnlyOnChange ==
    [][Reloads =>
        IF folderFiles = Range(credentialFilePaths)
        THEN UNCHANGED <<credentialFilePaths, currentIndex, allAccountsExhausted>>
        ELSE /\ credentialFilePaths' = Listing(folderFiles)
             /\ currentIndex' = 0
             /\ allAccountsExhausted' = FALSE]_vars

\* Every burst of watch events (each less than a second after the one
\* before) has caused one reload, or has its one timer pending.
OneReloadPerBurst ==
    hist.owed = folderReads + (IF refreshDebounceTimer > 0 THEN 1 ELSE 0)

C39_IndexInPool ==
    IF Len(credentialFilePaths) = 0
    THEN currentIndex = 0
    ELSE currentIndex \in 0..(Len(credentialFilePaths) - 1)

\* A rotation has moved the index to the last position of a pool that a
\* folder reload made, the watcher running.
C39_Witness ==
    /\ hist.listed
    /\ folderWatcher
    /\ Len(credentialFilePaths) > 1
    /\ currentIndex = Len(credentialFilePaths) - 1
    /\ Range(credentialFilePaths) = folderFiles

\* A folder reload has emptied the pool.
C39_EmptyPool ==
    /\ hist.listed
    /\ credentialFilePaths = <<>>
    /\ folderFiles = {}
    /\ folderReads = 0

\* ------------------------------------------------------------------------
\* A rotation that fails (SpecRot)
\* ------------------------------------------------------------------------
\* The exhaustion flag before the rotation in flight started, no time-based
\* reset having fired: the flag is written by performRotation() only, as
\* "the index is 0 again".
FlagBefore == hist.advances > 1 /\ hist.from = 0

\* C32: when rotateCredentials() rejects (the candidate file is invalid or
\* unreadable, or the cache file cannot be written), the current index, the
\* exhaustion flag and the cache file are what they were before the call.
C32_RejectionChangesNothing ==
    [][\A c \in RotCallers :
         (Settles(c) /\ rotRes'[c] = <<"rejected">> /\ hist.resets = 0) =>
            /\ currentIndex' = hist.from
            /\ allAccountsExhausted' = FlagBefore
            /\ cacheFile' = cacheFile]_vars

\* ------------------------------------------------------------------------
\* The project of the retried request (SpecDisc)
\* ------------------------------------------------------------------------
\* Task c, having rotated to another account, retries its request in this
\* step.
RetriesRotated(c) ==
    /\ pc[c] = "projret"
    /\ pc'[c] = "token"
    /\ reload[c].from # reload[c].ref

\* C33: the request retried after a rotation carries the project identity
\* of the new account or none, never that of an account used before.
C33_RetryCarriesNewProject ==
    [][\A c \in EngCallers :
         RetriesRotated(c) => reqProject' \in {0, ProjectOf(reload[c].ref)}]_vars

\* The same for the retries whose discovery found no identity.
RetryWithoutProject ==
    [][\A c \in EngCallers :
         RetriesRotated(c) /\ projRes[c] = 0 =>
            reqProject' \in {0, ProjectOf(reload[c].ref)}]_vars

\* ------------------------------------------------------------------------
\* SpecInst: the server's client and the clients made for the model
\* fallback, over one handle and one rotator, no static project; the
\* requests of the discovery are answered 200
\* ------------------------------------------------------------------------
InitInst == \E n \in 2..MaxPool : InitClient(n, 0)

NextInst ==
    \/ \E c \in Solo : StreamCall(c)
    \/ \E c \in Solo : GetToken(c)
    \/ \E c \in Solo : ResponseOk(c, OneTextBody)
    \/ \E c \in Solo : StreamFrame(c)
    \/ \E c \in Solo : StreamEnd(c)
    \/ \E c \in Solo : Fallback(c) /\ projectIdPromise = "null"
    \/ \E c \in Solo : FallbackReturns(c)
    \/ \E c \in Solo : ResponseRotate(c, 429)
    \/ \E c \in Solo : ResponseFail(c, 429)
    \/ PerformValidate /\ UNCHANGED engVars
    \/ PerformRead /\ UNCHANGED engVars
    \/ PerformWrite /\ UNCHANGED engVars
    \/ \E c \in Solo : RotateFinally(c) /\ UNCHANGED engVars
    \/ \E c \in Solo : AfterRotate(c)
    \/ \E c \in Solo : ReloadRead(c)
    \/ \E c \in Solo : ReloadRefresh(c)
    \/ \E c \in Solo : ReloadWrite(c)
    \/ \E c \in Solo : AfterDiscover(c)
    \/ \E body \in {"project", "none"} : DiscResponse(body)

SpecInst == InitInst /\ [][NextInst]_vars

\* The project identities the clients hold in their projectId fields.
CachedProjects == {projectId} \cup {self[i].projectId : i \in 1..Len(self)}

\* C34: whenever the credentials of the handle change to another account,
\* the project identity every client over that handle has cached is cleared,
\* whichever of the clients performed the rotation.
C34_InvalidatedOnChange ==
    [][authAcct' # authAcct =>
         /\ projectId' = 0
         /\ \A i \in 1..Len(self') : self'[i].projectId = 0]_vars

\* No client holds the identity of an account that is not the active one,
\* and a change of credentials keeps it so.
NoStaleCache == \A p \in CachedProjects : p # 0 => p = ProjectOf(authAcct)
ChangeLeavesNoStaleCache ==
    [][authAcct' # authAcct /\ NoStaleCache => NoStaleCache']_vars

\* ------------------------------------------------------------------------
\* A refresh that fails (SpecTok)
\* ------------------------------------------------------------------------
\* The refresh in flight ends in this step without a token.
RefreshRejects ==
    /\ RefreshInFlight
    /\ \E c \in tokWaiters : tokRes'[c].kind = "rejected"

\* Caller c calls getAccessToken() in this step and is not served from the
\* cache.
CallsHandle(c) == pc[c] = "idle" /\ pc'[c] = "tokwait"

\* C35: when the handle's refresh fails or yields no token, getAccessToken()
\* rejects for the caller that started the refresh and for every caller that
\* joined it, the cached token and its expiry are left as they were, and the
\* in-flight marker is cleared; a call made while no refresh is in flight
\* and not served from the cache starts a new refresh.
C35_FailedRefresh ==
    [][/\ RefreshRejects =>
            /\ \A c \in tokWaiters :
                   pc'[c] = "tokret" /\ tokRes'[c].kind = "rejected"
            /\ UNCHANGED <<cachedToken, tokenExpiration>>
            /\ ~RefreshInFlight'
       /\ \A c \in TokCallers :
            CallsHandle(c) /\ ~RefreshInFlight =>
                /\ tokRes'[c].via = "start"
                /\ handleCalls' = handleCalls + 1
                /\ RefreshInFlight']_vars

\* A refresh that two callers shared has failed for both, and a call made
\* after it has started the next refresh.
C35_Witness ==
    \E c, d, e \in TokCallers :
        /\ pc[c] = "tokret" /\ tokRes[c].kind = "rejected" /\ tokRes[c].via = "start"
        /\ pc[d] = "tokret" /\ tokRes[d].kind = "rejected" /\ tokRes[d].via = "join"
        /\ pc[e] = "tokwait" /\ tokRes[e].via = "start"
        /\ tokRes[e].entry = tokRes[c].entry + 1
        /\ RefreshInFlight

\* ------------------------------------------------------------------------
\* Discoveries shared and started afresh (SpecDisc)
\* ------------------------------------------------------------------------
\* Task c calls discoverProjectId() in this step, no identity being
\* configured or cached.
CallsDiscover(c) ==
    /\ pc[c] \in {"refresh", "reloadwrite"}
    /\ pc'[c] \in {"projwait", "projret"}
    /\ googleCloudProject = 0
    /\ projectId = 0

\* The discovery block returns in this step.
DiscReturns == pc[DiscTask] # "idle" /\ pc'[DiscTask] = "idle"

\* C36: a discoverProjectId() call made while a discovery is in flight
\* waits for that discovery and issues no request of its own; when the
\* discovery completes every waiting call gets its one result and the
\* in-flight handle is reset; a call made with no discovery in flight
\* starts a new one, from its first request.
C36_SharedDiscovery ==
    [][/\ \A c \in SoloTasks :
            CallsDiscover(c) =>
                IF projectIdPromise = "pending"
                THEN /\ pc'[c] = "projwait"
                     /\ projWaiters' = projWaiters \cup {c}
                     /\ UNCHANGED <<projectIdPromise, disc, stack[DiscTask]>>
                ELSE /\ pc'[c] = "projwait"
                     /\ projWaiters' = {c}
                     /\ projectIdPromise' = "pending"
                     /\ disc' = [stage |-> "load1", polls |-> 0,
                                 acct |-> authAcct]
                     /\ pc'[DiscTask] = "fetch"
       /\ DiscReturns =>
            /\ \E v \in {0} \cup {ProjectOf(a) : a \in Files} :
                   \A t \in projWaiters : pc'[t] = "projret" /\ projRes'[t] = v
            /\ projWaiters' = {}
            /\ projectIdPromise' = "null"]_vars

\* A caller that was handed the result of one discovery waits, alone, for
\* the first request of a discovery it started after its next rotation.
C36_Witness ==
    \E c \in Solo :
        /\ pc[c] = "projwait"
        /\ projWaiters = {c}
        /\ projRes[c] # 0
        /\ reload[c].from # reload[c].ref
        /\ disc = [stage |-> "load1", polls |-> 0, acct |-> reload[c].ref]
        /\ pc[DiscTask] = "fetch"

\* A caller waits for the discovery that was in flight when it called.
C36_Joined ==
    \E c \in Solo :
        /\ pc[c] = "projwait"
        /\ projWaiters = {c}
        /\ disc.acct = reload[c].from
        /\ reload[c].from # reload[c].ref

\* ------------------------------------------------------------------------
\* The closing chunk of a stream (SpecEng)
\* ------------------------------------------------------------------------
\* The usageMetadata of the last frame of the body that has one.
RECURSIVE LastUsageMetadata(_)
LastUsageMetadata(body) ==
    IF body = <<>> THEN NoUsageMetadata
    ELSE IF body[Len(body)].usage.has THEN body[Len(body)].usage
    ELSE LastUsageMetadata(SubSeq(body, 1, Len(body) - 1))

\* C37: a stream whose body ends without error yields exactly one closing
\* chunk (a chunk with a finish reason), as its last chunk.  The closing
\* chunk's usage is built from the last usage frame of the body:
\* completion_tokens is candidates + thoughts and total_tokens is prompt +
\* candidates + thoughts; it has no usage when the body had no usage frame.
C37_ClosingChunk ==
    [][\A c \in EngCallers :
         (pc[c] = "stream" /\ pc'[c] = "done" /\ result'[c] = Completed) =>
            LET chunks == stream'[c].chunks
                final == chunks[Len(chunks)]
                u == LastUsageMetadata(stream[c].body)
            IN /\ Len(chunks) > 0
               /\ final.finish_reason # "null"
               /\ \A i \in 1..(Len(chunks) - 1) : chunks[i].finish_reason = "null"
               /\ final.usage =
                    IF u.has
                    THEN [has |-> TRUE,
                          prompt_tokens |-> u.promptTokenCount,
                          completion_tokens |->
                              u.candidatesTokenCount + u.thoughtsTokenCount,
                          total_tokens |->
                              u.promptTokenCount + u.candidatesTokenCount
                                  + u.thoughtsTokenCount]
                    ELSE NoUsageData]_vars

\* A stream of two usage frames, the second with thoughts, has ended.
C37_Witness ==
    \E c \in EngCallers :
        /\ pc[c] = "done"
        /\ result[c] = Completed
        /\ Len(stream[c].body) = 2
        /\ stream[c].body[1].usage.has
        /\ stream[c].body[2].usage.has
        /\ stream[c].body[2].usage.thoughtsTokenCount > 0
        /\ stream[c].body[1].usage # stream[c].body[2].usage
        /\ stream[c].chunks[Len(stream[c].chunks)].usage.has

\* A stream without a usage frame has ended.
C37_NoUsage ==
    \E c \in EngCallers :
        /\ pc[c] = "done"
        /\ result[c] = Completed
        /\ stream[c].body # <<>>
        /\ ~LastUsageMetadata(stream[c].body).has

\* ------------------------------------------------------------------------
\* Events that cannot be decoded (SpecSSE)
\* ------------------------------------------------------------------------
\* The texts of the events of a body: the payloads of the data lines between
\* two blank lines, or before the end of the body, joined.  obj is the text
\* gathered so far, lines the complete lines still to come.
RECURSIVE EventsOf(_, _)
EventsOf(obj, lines) ==
    LET closed == IF obj # <<>> THEN <<obj>> ELSE <<>>
    IN IF lines = <<>> THEN closed
       ELSE IF Trim(Head(lines)) = <<>>
       THEN closed \o EventsOf(<<>>, Tail(lines))
       ELSE IF StartsWith(Head(lines), DataPrefix)
       THEN EventsOf(obj \o Substring(Head(lines), Len(DataPrefix)), Tail(lines))
       ELSE EventsOf(obj, Tail(lines))
EventTexts(text) ==
    LET lines == Split(text) IN EventsOf(<<>>, SubSeq(lines, 1, Len(lines) - 1))

\* An event that neither JSON.parse nor the recovery can decode.
Undecodable(e) == ~JSONValid(e) /\ tryRecoverMultipleJson(e) = <<>>

RECURSIVE YieldsOf(_)
YieldsOf(events) ==
    IF events = <<>> THEN <<>>
    ELSE (IF JSONValid(Head(events)) THEN <<JSONParse(Head(events))>>
          ELSE tryRecoverMultipleJson(Head(events)))
         \o YieldsOf(Tail(events))

\* C38: the stream is read to its end whatever its events hold, and what it
\* has yielded then is, event by event and in order, the decoded object, or
\* what the recovery finds, or nothing for an event that cannot be decoded;
\* the event left in the object buffer when the stream ends is treated as
\* the events closed by a blank line are.
C38_ParseFailureSkipsEvent ==
    ssePc = "done" =>
        /\ sseInput = <<>>
        /\ sseOut = YieldsOf(EventTexts(sseText))
        /\ sseOut = YieldsOf(SelectSeq(EventTexts(sseText),
                                       LAMBDA e : ~Undecodable(e)))

\* An event that cannot be decoded was dropped and the event after it, left
\* in the object buffer at the end of the stream, was yielded.
C38_Witness ==
    /\ ssePc = "done"
    /\ sseText = DataPrefix \o <<"{", LF, LF>> \o DataPrefix \o <<"{", "}", LF>>
    /\ sseOut = << <<"{", "}">> >>

\* Two objects left in the object buffer at the end of the stream were both
\* recovered.
C38_RecoveredAtEnd ==
    /\ ssePc = "done"
    /\ sseText = DataPrefix \o <<"{", "}", LF>> \o DataPrefix \o <<"{", "}", LF>>
    /\ sseOut = << <<"{", "}">>, <<"{", "}">> >>

\* ------------------------------------------------------------------------
\* SpecConv: the server's client, with a static project and no rotation,
\* serves the chat completion requests of two conversations
\* ------------------------------------------------------------------------
\* The 200 responses of SpecConv: one frame.
ConvBodies == {b \in OkBodies : Len(b) = 1}

\* The route handler maps a request of conversation conv and calls
\* streamContent(): the client's lastThoughtSignature is put on the tool
\* parts the request has (tools: it has some).
Chat(c, conv, tools) ==
    /\ pc[c] = "idle"
    /\ hist.chats < MaxChats
    /\ reqThoughtSignature' = IF tools THEN lastThoughtSignature ELSE 0
    /\ stack' = [stack EXCEPT ![c] = <<NewFrame(0)>>]
    /\ pc' = [pc EXCEPT ![c] = "token"]
    /\ hist' = [hist EXCEPT !.chats = @ + 1, !.conv = conv]
    /\ UNCHANGED <<rotVars, envVars, tokVars, sseVars, rotRes, firstChunk,
                   lastThoughtSignature, stream, completion, reqModel, self,
                   googleCloudProject, accessToken, projectId,
                   projectIdPromise, authAcct, result, projWaiters, projRes,
                   disc, reqProject, reload, blacklisted, obs>>

\* The stream has been written to the response.  History: the signatures
\* the upstream returned in it are those of its conversation.
ChatReturns(c) ==
    /\ pc[c] = "done"
    /\ pc' = [pc EXCEPT ![c] = "idle"]
    /\ stream' = [stream EXCEPT ![c] = NoStream]
    /\ completion' = [completion EXCEPT ![c] = NoCompletion]
    /\ result' = [result EXCEPT ![c] = NoResult]
    /\ hist' = [hist EXCEPT !.seen[hist.conv] =
                    @ \cup Range(Signatures(stream[c].body))]
    /\ UNCHANGED <<rotVars, envVars, tokVars, sseVars, rotRes, firstChunk,
                   lastThoughtSignature, reqModel, self, reqThoughtSignature,
                   googleCloudProject, accessToken, projectId,
                   projectIdPromise, authAcct, stack, projWaiters, projRes,
                   disc, reqProject, reload, blacklisted, obs>>

InitConv ==
    /\ InitClientWith(0, FALSE, StaticProject)

NextConv ==
    \/ \E c \in Solo, conv \in Conversations \ {0}, tools \in BOOLEAN :
          Chat(c, conv, tools)
    \/ \E c \in Solo : GetToken(c)
    \/ \E c \in Solo, body \in ConvBodies : ResponseOk(c, body)
    \/ \E c \in Solo : StreamFrame(c)
    \/ \E c \in Solo : StreamEnd(c)
    \/ \E c \in Solo : ChatReturns(c)

SpecConv == InitConv /\ [][NextConv]_vars

\* C40: a thought signature attached to an outgoing request is one the
\* upstream returned in an earlier response of the same conversation.
C40_SignatureOfSameConversation ==
    reqThoughtSignature # 0 => reqThoughtSignature \in hist.seen[hist.conv]

====
